---- MODULE Spec2Model ----
(***************************************************************************)
(* Model of the packed-bitfield type system and numeric codec of the       *)
(* nifpga Python package (src/nifpga/bitfile.py): the type classes built   *)
(* by _parse_type and their unpack_data / pack_data methods.               *)
(*                                                                         *)
(* Python integers are unbounded; the model keeps every blob below 2^31    *)
(* by bounding the size of the type trees.  decimal.Decimal values are     *)
(* modelled exactly: a sign, a coefficient held as a sequence of decimal   *)
(* digits and an exponent, with the rounding of the default context        *)
(* (28 significant digits, ROUND_HALF_EVEN) applied where Python applies   *)
(* it (the result of every arithmetic operation, never a constructor).     *)
(***************************************************************************)
EXTENDS Integers, Sequences, FiniteSets, TLC

(***************************************************************************)
(* Python int arithmetic: shifts and the bitwise operators on unbounded    *)
(* two's-complement integers (a negative int has infinitely many leading   *)
(* one bits; \div and % are floor division and its remainder).             *)
(***************************************************************************)
RECURSIVE Pow2(_)
Pow2(n) ==
    IF n <= 0 THEN 1 ELSE 2 * Pow2(n - 1)

ShiftLeft(a, n) ==
    a * Pow2(n)

ShiftRight(a, n) ==
    a \div Pow2(n)

RECURSIVE BitAnd(_, _)
BitAnd(a, b) ==
    IF a = 0 \/ b = 0 THEN 0
    ELSE IF a = -1 THEN b
    ELSE IF b = -1 THEN a
    ELSE (a % 2) * (b % 2) + 2 * BitAnd(a \div 2, b \div 2)

RECURSIVE BitXor(_, _)
BitXor(a, b) ==
    IF b = 0 THEN a
    ELSE IF a = 0 THEN b
    ELSE IF a = -1 /\ b = -1 THEN 0
    ELSE (((a % 2) + (b % 2)) % 2) + 2 * BitXor(a \div 2, b \div 2)

RECURSIVE BitOr(_, _)
BitOr(a, b) ==
    IF a = 0 THEN b
    ELSE IF b = 0 THEN a
    ELSE IF a = -1 \/ b = -1 THEN -1
    ELSE (IF (a % 2) = 1 \/ (b % 2) = 1 THEN 1 ELSE 0)
         + 2 * BitOr(a \div 2, b \div 2)

Abs(n) ==
    IF n < 0 THEN -n ELSE n

(***************************************************************************)
(* decimal.Decimal.  A value is [neg, coef, exp]: (-1)^neg * coef * 10^exp *)
(* with coef a digit sequence, most significant digit first.  Values are   *)
(* kept canonical (no leading or trailing zero digit, zero is Zero), which *)
(* makes = the numeric equality that Python's == is on Decimal and int.    *)
(***************************************************************************)
Prec == 28

MinFloatExp == -1074

RECURSIVE NatDigits(_)
NatDigits(n) ==
    IF n = 0 THEN << >> ELSE NatDigits(n \div 10) \o << (n % 10) >>

RECURSIVE DigitsToNat(_)
DigitsToNat(ds) ==
    IF ds = << >> THEN 0
    ELSE 10 * DigitsToNat(SubSeq(ds, 1, Len(ds) - 1)) + ds[Len(ds)]

\* ds * m + c on digit sequences (m, c naturals up to 2^17), four digits
\* at a time
RECURSIVE MulAdd(_, _, _)
MulAdd(ds, m, c) ==
    LET n == Len(ds)
    IN  IF n < 4 THEN NatDigits(DigitsToNat(ds) * m + c)
        ELSE LET x == (ds[n - 3] * 1000 + ds[n - 2] * 100 + ds[n - 1] * 10 + ds[n]) * m + c
                 y == x % 10000
             IN  MulAdd(SubSeq(ds, 1, n - 4), m, x \div 10000)
                 \o << y \div 1000, (y \div 100) % 10, (y \div 10) % 10, y % 10 >>

RECURSIVE StripLeading(_)
StripLeading(ds) ==
    IF ds # << >> /\ ds[1] = 0 THEN StripLeading(Tail(ds)) ELSE ds

RECURSIVE TrailingZeros(_)
TrailingZeros(ds) ==
    IF ds # << >> /\ ds[Len(ds)] = 0
    THEN 1 + TrailingZeros(SubSeq(ds, 1, Len(ds) - 1))
    ELSE 0

Zero ==
    [neg |-> FALSE, coef |-> << >>, exp |-> 0]

Canon(neg, coef, exp) ==
    LET ds == StripLeading(coef)
        tz == TrailingZeros(ds)
    IN  IF ds = << >> THEN Zero
        ELSE [neg |-> neg, coef |-> SubSeq(ds, 1, Len(ds) - tz), exp |-> exp + tz]

\* Decimal(n) for a Python int n: exact
DecFromInt(n) ==
    Canon(n < 0, NatDigits(Abs(n)), 0)

\* the context rounding of a result: Prec significant digits, half to even
DecRound(d) ==
    IF Len(d.coef) <= Prec THEN d
    ELSE LET kept    == SubSeq(d.coef, 1, Prec)
             first   == d.coef[Prec + 1]
             dropped == Len(d.coef) - Prec
             up      == \/ first > 5
                        \/ first = 5 /\ dropped > 1
                        \/ first = 5 /\ dropped = 1 /\ (kept[Prec] % 2) = 1
         IN  Canon(d.neg, IF up THEN MulAdd(kept, 1, 1) ELSE kept, d.exp + dropped)

RECURSIVE Pow5(_)
Pow5(n) ==
    IF n <= 0 THEN 1 ELSE 5 * Pow5(n - 1)

\* d * 2^k, exact: the value of a power of two and of a quotient by one
\* (2^-k is 5^k * 10^-k); sixteen factors 2 or seven factors 5 at a time
RECURSIVE DecScale2(_, _)
DecScale2(d, k) ==
    IF k = 0 \/ d = Zero THEN d
    ELSE IF k > 0
    THEN LET step == IF k > 16 THEN 16 ELSE k
         IN  DecScale2(Canon(d.neg, MulAdd(d.coef, Pow2(step), 0), d.exp), k - step)
    ELSE LET step == IF -k > 7 THEN 7 ELSE -k
         IN  DecScale2(Canon(d.neg, MulAdd(d.coef, Pow5(step), 0), d.exp - step),
                       k + step)

\* int * Decimal: the int is converted exactly, the product is rounded
DecMulInt(n, d) ==
    IF n = 0 \/ d = Zero THEN Zero
    ELSE DecRound(Canon(d.neg # (n < 0), MulAdd(d.coef, Abs(n), 0), d.exp))

\* position of the most significant digit (Decimal.adjusted() + 1)
DecTop(d) ==
    Len(d.coef) + d.exp

RECURSIVE DigitsLess(_, _)
DigitsLess(a, b) ==
    IF b = << >> THEN FALSE
    ELSE IF a = << >> THEN TRUE
    ELSE IF a[1] # b[1] THEN a[1] < b[1]
    ELSE DigitsLess(Tail(a), Tail(b))

\* |a| < |b| for canonical values
DecMagLess(a, b) ==
    IF b = Zero THEN FALSE
    ELSE IF a = Zero THEN TRUE
    ELSE IF DecTop(a) # DecTop(b) THEN DecTop(a) < DecTop(b)
    ELSE DigitsLess(a.coef, b.coef)

\* a < b, the exact comparison of two numbers
DecLess(a, b) ==
    IF a.neg /\ ~b.neg THEN TRUE
    ELSE IF ~a.neg /\ b.neg THEN FALSE
    ELSE IF a.neg THEN DecMagLess(b, a)
    ELSE DecMagLess(a, b)

\* int(d): truncation toward zero
DecToInt(d) ==
    LET mag == IF d.exp >= 0
               THEN DigitsToNat(d.coef \o [i \in 1..d.exp |-> 0])
               ELSE IF Len(d.coef) <= -d.exp THEN 0
               ELSE DigitsToNat(SubSeq(d.coef, 1, Len(d.coef) + d.exp))
    IN  IF d.neg THEN -mag ELSE mag

(***************************************************************************)
(* Schema nodes: the XML elements handed to _parse_type.  tag is the       *)
(* element's tag, a field holding Absent is a child element find() does    *)
(* not find (None).  Type names are handled as character sequences where   *)
(* the code slices and searches them.                                      *)
(***************************************************************************)
Absent == "absent"

XLeaf(tag, name) ==
    [tag |-> tag, Name |-> name, SubType |-> Absent]

XSubType(text) ==
    [tag |-> "DataType", Name |-> Absent, SubType |-> text]

XFxp(name, signed, wl, iwl, overflow, delta, minimum, maximum) ==
    [tag |-> "FXP", Name |-> name, SubType |-> Absent, Signed |-> signed,
     WordLength |-> wl, IntegerWordLength |-> iwl,
     IncludeOverflowStatus |-> overflow,
     Delta |-> delta, Minimum |-> minimum, Maximum |-> maximum]

XCluster(name, members) ==
    [tag |-> "Cluster", Name |-> name, SubType |-> Absent, TypeList |-> members]

XArray(name, size, element) ==
    [tag |-> "Array", Name |-> name, SubType |-> Absent, Size |-> size,
     Type |-> << element >>]

Chars(s) ==
    CASE s = "U8"      -> << "U", "8" >>
      [] s = "I8"      -> << "I", "8" >>
      [] s = "U16"     -> << "U", "1", "6" >>
      [] s = "I16"     -> << "I", "1", "6" >>
      [] s = "U32"     -> << "U", "3", "2" >>
      [] s = "I32"     -> << "I", "3", "2" >>
      [] s = "U64"     -> << "U", "6", "4" >>
      [] s = "I64"     -> << "I", "6", "4" >>
      [] s = "EnumU8"  -> << "E", "n", "u", "m", "U", "8" >>
      [] s = "EnumU16" -> << "E", "n", "u", "m", "U", "1", "6" >>
      [] s = "Enum"    -> << "E", "n", "u", "m" >>
      [] s = "Bool"    -> << "B", "o", "o", "l" >>
      [] s = "Sgl"     -> << "S", "g", "l" >>
      [] s = "Dbl"     -> << "D", "b", "l" >>
      [] s = "Fxp"     -> << "F", "x", "p" >>
      [] s = "Cluster" -> << "C", "l", "u", "s", "t", "e", "r" >>
      [] s = "CDB"     -> << "C", "D", "B" >>
      [] s = "Path"    -> << "P", "a", "t", "h" >>
      [] s = "U128"    -> << "U", "1", "2", "8" >>
      [] s = "XU8"     -> << "X", "U", "8" >>

LowerChar(c) ==
    CASE c = "B" -> "b" [] c = "C" -> "c" [] c = "D" -> "d" [] c = "E" -> "e"
      [] c = "F" -> "f" [] c = "I" -> "i" [] c = "P" -> "p" [] c = "S" -> "s"
      [] c = "U" -> "u" [] c = "X" -> "x"
      [] OTHER -> c

Lower(cs) ==
    [i \in 1..Len(cs) |-> LowerChar(cs[i])]

\* str.lower() of the texts 'true' / 'false' the schema carries
LowerText(s) ==
    IF s \in {"true", "True", "TRUE"} THEN "true"
    ELSE IF s \in {"false", "False", "FALSE"} THEN "false"
    ELSE s

StartsWith(cs, sub) ==
    Len(sub) <= Len(cs) /\ SubSeq(cs, 1, Len(sub)) = sub

\* sub in cs
Contains(cs, sub) ==
    \E i \in 0..(Len(cs) - Len(sub)) : SubSeq(cs, i + 1, i + Len(sub)) = sub

\* cs.replace(sub, "")
RECURSIVE Remove(_, _)
Remove(cs, sub) ==
    IF cs = << >> THEN << >>
    ELSE IF StartsWith(cs, sub) THEN Remove(SubSeq(cs, Len(sub) + 1, Len(cs)), sub)
    ELSE << cs[1] >> \o Remove(Tail(cs), sub)

DigitOf(c) ==
    CASE c = "0" -> 0 [] c = "1" -> 1 [] c = "2" -> 2 [] c = "3" -> 3
      [] c = "4" -> 4 [] c = "5" -> 5 [] c = "6" -> 6 [] c = "7" -> 7
      [] c = "8" -> 8 [] c = "9" -> 9 [] OTHER -> -1

\* int(cs): -1 stands for the ValueError of a text that is not a number
ParseInt(cs) ==
    IF cs = << >> \/ \E i \in 1..Len(cs) : DigitOf(cs[i]) = -1 THEN -1
    ELSE DigitsToNat([i \in 1..Len(cs) |-> DigitOf(cs[i])])

\* the members of the DataType enumeration, in definition order
DataType ==
    << "Bool", "I8", "U8", "I16", "U16", "I32", "U32", "I64", "U64",
       "Sgl", "Dbl", "Fxp", "Cluster" >>

(***************************************************************************)
(* The type classes.  A built type is a record whose fields are the        *)
(* attributes __init__ sets; a failed build is Raise(exception).           *)
(***************************************************************************)
Raise(e) ==
    [kind |-> "Error", exc |-> e]

IsError(t) ==
    t.kind = "Error"

\* _BaseType.__init__
BaseName(name) ==
    IF name = Absent THEN "" ELSE name

\* size_in_bits with a String taking a byte
SizeInBitsStringByte(t) ==
    IF t.kind = "Bool" THEN 1
    ELSE IF t.kind = "String" THEN 8
    ELSE t.size_in_bits

\* the size_in_bits property of every class
SizeInBits(t) ==
    IF t.kind = "Bool" THEN 1
    ELSE IF t.kind = "String" THEN 0
    ELSE t.size_in_bits

NewString(name) ==
    [kind |-> "String", name |-> BaseName(name)]

NewBool(name) ==
    [kind |-> "Bool", name |-> BaseName(name)]

NewFloat(name, type_name) ==
    [kind |-> "Float", name |-> BaseName(name),
     datatype |-> IF type_name = "SGL" THEN "Sgl" ELSE "Dbl",
     size_in_bits |-> IF type_name = "SGL" THEN 32 ELSE 64]

NewNumeric(name, type_name) ==
    LET tn      == Remove(Chars(type_name), Chars("Enum"))
        matches == {i \in 1..Len(DataType) : Contains(Lower(tn), Lower(Chars(DataType[i])))}
        size    == ParseInt(SubSeq(tn, 2, Len(tn)))
    IN  IF matches = {} THEN Raise("UnsupportedTypeError")
        ELSE IF size = -1 THEN Raise("ValueError")
        ELSE [kind |-> "Numeric", name |-> BaseName(name),
              datatype |-> DataType[CHOOSE i \in matches : \A j \in matches : i <= j],
              signed |-> LowerChar(tn[1]) = "i",
              size_in_bits |-> size,
              data_mask |-> ShiftLeft(1, size) - 1,
              signed_bit_mask |-> ShiftLeft(1, size - 1)]

\* 2**(integer_word_length - word_length): an int when the exponent is not
\* negative, else a float, which holds a power of two exactly down to
\* 2^MinFloatExp and is 0.0 below; Decimal() of either is exact
CalculateDelta(wl, iwl) ==
    IF iwl - wl < MinFloatExp THEN Zero
    ELSE DecScale2(DecFromInt(1), iwl - wl)

CalculateMinimum(wl, signed, delta) ==
    IF signed THEN DecMulInt(-1, DecMulInt(Pow2(wl - 1), delta))
    ELSE Zero

\* _calculate_maximum without the bit it gives to the sign
CalculateMaximumUnsigned(wl, signed, delta) ==
    DecMulInt(Pow2(wl) - 1, delta)

CalculateMaximum(wl, signed, delta) ==
    LET magnitude_bits == IF signed THEN wl - 1 ELSE wl
    IN  DecMulInt(Pow2(magnitude_bits) - 1, delta)

CalculateSizeInBits(wl, overflow_enabled) ==
    IF overflow_enabled THEN wl + 1 ELSE wl

\* an FXP constructor that takes a missing Signed element for 'false'
NewFXPUnsignedDefault(name, x) ==
    LET wl    == x.WordLength
        delta == CalculateDelta(wl, x.IntegerWordLength)
        size  == CalculateSizeInBits(wl, FALSE)
    IN  [kind |-> "FXP", name |-> BaseName(name),
         signed |-> FALSE, overflow_enabled |-> FALSE,
         word_length |-> wl, integer_word_length |-> x.IntegerWordLength,
         delta |-> delta,
         minimum |-> CalculateMinimum(wl, FALSE, delta),
         maximum |-> CalculateMaximum(wl, FALSE, delta),
         size_in_bits |-> size,
         data_mask |-> ShiftLeft(1, size) - 1,
         word_length_mask |-> ShiftLeft(1, wl) - 1,
         signed_bit_mask |-> 0]

NewFXP(name, x) ==
    IF x.Signed = Absent THEN Raise("UnsupportedTypeError")
    ELSE LET signed   == LowerText(x.Signed) = "true"
             overflow == IF x.IncludeOverflowStatus # Absent
                         THEN LowerText(x.IncludeOverflowStatus) = "true"
                         ELSE FALSE
             wl       == x.WordLength
             iwl      == x.IntegerWordLength
             delta    == CalculateDelta(wl, iwl)
             size     == CalculateSizeInBits(wl, overflow)
         IN  [kind |-> "FXP", name |-> BaseName(name),
              signed |-> signed, overflow_enabled |-> overflow,
              word_length |-> wl, integer_word_length |-> iwl,
              delta |-> delta,
              minimum |-> CalculateMinimum(wl, signed, delta),
              maximum |-> CalculateMaximum(wl, signed, delta),
              size_in_bits |-> size,
              data_mask |-> ShiftLeft(1, size) - 1,
              word_length_mask |-> ShiftLeft(1, wl) - 1,
              signed_bit_mask |-> IF signed THEN ShiftLeft(1, wl - 1) ELSE 0]

RECURSIVE SumSizes(_)
SumSizes(children) ==
    IF children = << >> THEN 0
    ELSE SizeInBits(children[1]) + SumSizes(Tail(children))

RECURSIVE ParseType(_)
RECURSIVE ParseChildren(_, _, _, _)
RECURSIVE ParseChildrenSkipping(_, _, _, _)
RECURSIVE ParseChildrenUnchecked(_, _, _, _)

\* a member loop that leaves out the members that fail to build
ParseChildrenSkipping(members, i, names, children) ==
    IF i > Len(members) THEN [kind |-> "Children", list |-> children]
    ELSE LET child_type == ParseType(members[i])
         IN  IF IsError(child_type)
             THEN ParseChildrenSkipping(members, i + 1, names, children)
             ELSE IF child_type.name \in names
             THEN Raise("ClusterMustContainUniqueNames")
             ELSE ParseChildrenSkipping(members, i + 1, names \cup {child_type.name},
                                        Append(children, child_type))

\* a member loop without the check of the names seen so far
ParseChildrenUnchecked(members, i, names, children) ==
    IF i > Len(members) THEN [kind |-> "Children", list |-> children]
    ELSE LET child_type == ParseType(members[i])
         IN  IF IsError(child_type) THEN child_type
             ELSE ParseChildrenUnchecked(members, i + 1, names,
                                         Append(children, child_type))

\* the loop of _Cluster.__init__ from member i on (the second _parse_type
\* call of an iteration builds the same type as the first)
ParseChildren(members, i, names, children) ==
    IF i > Len(members) THEN [kind |-> "Children", list |-> children]
    ELSE LET child_type == ParseType(members[i])
         IN  IF IsError(child_type) THEN child_type
             ELSE IF child_type.name \in names
             THEN Raise("ClusterMustContainUniqueNames")
             ELSE ParseChildren(members, i + 1, names \cup {child_type.name},
                                Append(children, child_type))

NewCluster(name, x) ==
    LET parsed == ParseChildren(x.TypeList, 1, {}, << >>)
    IN  IF IsError(parsed) THEN parsed
        ELSE [kind |-> "Cluster", name |-> BaseName(name),
              children |-> parsed.list, size_in_bits |-> SumSizes(parsed.list)]

NewArray(name, x) ==
    LET subtype == ParseType(x.Type[1])
    IN  IF IsError(subtype) THEN subtype
        ELSE [kind |-> "Array", name |-> BaseName(name),
              subtype |-> subtype, size |-> x.Size,
              size_in_bits |-> SizeInBits(subtype) * x.Size]

ParseType(x) ==
    LET type_name == IF x.SubType # Absent THEN x.SubType ELSE x.tag
        name      == IF x.SubType # Absent THEN "" ELSE x.Name
    IN  IF type_name = "Boolean" THEN NewBool(name)
        ELSE IF type_name = "Cluster" THEN NewCluster(name, x)
        ELSE IF type_name = "FXP" THEN NewFXP(name, x)
        ELSE IF type_name = "Array" THEN NewArray(name, x)
        ELSE IF type_name = "SGL" \/ type_name = "DBL" THEN NewFloat(name, type_name)
        ELSE IF type_name = "String" THEN NewString(name)
        ELSE IF type_name = "CFXP" THEN Raise("UnsupportedTypeError")
        ELSE NewNumeric(name, type_name)

(***************************************************************************)
(* Domain values.  bool -> BOOLEAN, int -> Int, str -> STRING, a Decimal   *)
(* (or any number) handed to or returned by an FXP -> Num(d), the tuple    *)
(* (overflow, value) -> Pair(o, d), OrderedDict -> the sequence of its     *)
(* << key, value >> items in insertion order, list -> sequence.            *)
(***************************************************************************)
Num(d) ==
    [kind |-> "num", num |-> d]

Pair(o, d) ==
    [kind |-> "pair", overflow |-> o, num |-> d]

\* data_to_pack[name] on a mapping
RECURSIVE Lookup(_, _)
Lookup(items, name) ==
    IF items[1][1] = name THEN items[1][2] ELSE Lookup(Tail(items), name)

(***************************************************************************)
(* unpack_data                                                             *)
(***************************************************************************)
UnpackNumericUnsigned(t, bits_from_fpga) ==
    BitAnd(bits_from_fpga, t.data_mask)

UnpackNumericSigned(t, bits_from_fpga) ==
    LET data == BitAnd(bits_from_fpga, t.data_mask)
    IN  IF BitAnd(data, t.signed_bit_mask) # 0
        THEN (BitXor(data, t.data_mask) + 1) * (-1)
        ELSE data

UnpackBool(data) ==
    BitAnd(data, 1) # 0

GetOverflowValue(t, data) ==
    BitAnd(data, Pow2(t.word_length)) > 0

RemoveOverflowBit(t, data) ==
    BitAnd(data, t.word_length_mask)

IntegerTwosComp(t, data) ==
    IF BitAnd(data, t.signed_bit_mask) > 0
    THEN (BitXor(data, t.word_length_mask) + 1) * (-1)
    ELSE data

UnpackFXP(t, bits) ==
    LET masked        == BitAnd(bits, t.data_mask)
        overflow      == GetOverflowValue(t, masked)
        word          == IF t.overflow_enabled THEN RemoveOverflowBit(t, masked)
                         ELSE masked
        data          == IF t.signed THEN IntegerTwosComp(t, word) ELSE word
        decimal_value == DecMulInt(data, t.delta)
    IN  IF t.overflow_enabled THEN Pair(overflow, decimal_value)
        ELSE Num(decimal_value)

RECURSIVE UnpackData(_, _)
RECURSIVE UnpackDataRecursive(_, _, _)
RECURSIVE UnpackArray(_, _, _)

\* _Cluster._unpack_data_recursive iterating the members first to last
\* instead of reversed: the first declared member is read from the low bits
RECURSIVE UnpackDataForward(_, _, _)
UnpackDataForward(children, i, data) ==
    IF i = 0 THEN << >>
    ELSE LET child == children[Len(children) + 1 - i]
         IN  << << child.name, UnpackData(child, data) >> >>
             \o UnpackDataForward(children, i - 1,
                                  ShiftRight(data, SizeInBits(child)))

\* _Cluster._unpack_data_recursive with child_iter at children[i],
\* walking the members from the last to the first; returns the items
\* stored in result by this call and the calls below it
UnpackDataRecursive(children, i, data) ==
    IF i = 0 THEN << >>
    ELSE LET child          == children[i]
             current_result == UnpackData(child, data)
         IN  Append(UnpackDataRecursive(children, i - 1,
                                        ShiftRight(data, SizeInBits(child))),
                    << child.name, current_result >>)

\* the loop of _Array.unpack_data from index i on: results[i..size-1]
UnpackArray(t, i, data) ==
    IF i >= t.size THEN << >>
    ELSE << UnpackData(t.subtype, data) >>
         \o UnpackArray(t, i + 1, ShiftRight(data, SizeInBits(t.subtype)))

\* _Array.unpack_data without results.reverse()
Unreversed(s) ==
    s

\* results.reverse()
Reverse(s) ==
    [i \in 1..Len(s) |-> s[Len(s) + 1 - i]]

UnpackData(t, data) ==
    CASE t.kind = "String"  -> ""
      [] t.kind = "Numeric" -> IF t.signed THEN UnpackNumericSigned(t, data)
                               ELSE UnpackNumericUnsigned(t, data)
      [] t.kind = "Bool"    -> UnpackBool(data)
      [] t.kind = "Cluster" -> UnpackDataRecursive(t.children, Len(t.children), data)
      [] t.kind = "Array"   -> Reverse(UnpackArray(t, 0, data))
      [] t.kind = "FXP"     -> UnpackFXP(t, data)

(***************************************************************************)
(* pack_data.  A call returns [blob, warns, exc]: the returned integer,    *)
(* the warnings it emitted in order, and the exception that ended it       *)
(* (NoExc when it returned).                                               *)
(***************************************************************************)
NoExc == "none"

Coerced == "coerced"

Returned(blob, warns) ==
    [blob |-> blob, warns |-> warns, exc |-> NoExc]

Raised(e, warns) ==
    [blob |-> -1, warns |-> warns, exc |-> e]

\* _Numeric.pack_data without the data_mask on the value
PackNumericUnmasked(t, data_to_pack, packed_data) ==
    Returned(BitOr(ShiftLeft(packed_data, t.size_in_bits), data_to_pack), << >>)

PackNumeric(t, data_to_pack, packed_data) ==
    Returned(BitOr(ShiftLeft(packed_data, t.size_in_bits),
                   BitAnd(data_to_pack, t.data_mask)), << >>)

\* a pack_data that starts from an empty accumulator
PackBoolAlone(data_to_pack, packed_data) ==
    Returned(IF data_to_pack THEN 1 ELSE 0, << >>)

PackBool(data_to_pack, packed_data) ==
    LET bit_to_pack == IF data_to_pack THEN 1 ELSE 0
    IN  Returned(BitOr(ShiftLeft(packed_data, 1), bit_to_pack), << >>)

\* _FXP._validate_and_parse_user_input: unpacking a bare number as a tuple
\* raises the TypeError the code swallows; a tuple where a number is
\* expected fails the isinstance assertion
ValidateAndParseUserInput(t, user_input) ==
    IF t.overflow_enabled
    THEN IF user_input.kind = "pair"
         THEN [overflow |-> user_input.overflow, data |-> user_input.num, exc |-> NoExc]
         ELSE [overflow |-> FALSE, data |-> user_input.num, exc |-> NoExc]
    ELSE IF user_input.kind = "pair"
         THEN [overflow |-> FALSE, data |-> user_input.num, exc |-> "AssertionError"]
         ELSE [overflow |-> FALSE, data |-> user_input.num, exc |-> NoExc]

\* Decimal(data) / Decimal(self._delta).  The divisor is the type's delta,
\* 2^(integer_word_length - word_length) or the 0 of an underflowed float;
\* the quotient by a power of two is a finite decimal, which the context
\* rounds
DecDivDelta(data, t) ==
    DecRound(DecScale2(data, t.word_length - t.integer_word_length))

\* _convert_value_to_fxp from the quotient on
FxpRepresentation(calculated_fxp) ==
    [rep |-> DecToInt(calculated_fxp),
     warns |-> IF DecFromInt(DecToInt(calculated_fxp)) # calculated_fxp
               THEN << Coerced >> ELSE << >>,
     exc |-> NoExc]

ConvertValueToFxp(t, data) ==
    IF t.delta = Zero
    THEN [rep |-> 0, warns |-> << >>,
          exc |-> IF data = Zero THEN "InvalidOperation" ELSE "DivisionByZero"]
    ELSE FxpRepresentation(DecDivDelta(data, t))

\* _FXP.pack_data after the range test: conv is what _convert_value_to_fxp
\* gave, clamped tells whether warn_coerced_data follows it
PackFXPWord(t, overflow, data, conv, clamped, packed_data) ==
    LET twos == IF t.signed /\ DecLess(data, Zero)
                THEN IntegerTwosComp(t, conv.rep) ELSE conv.rep
    IN  IF conv.exc # NoExc THEN Raised(conv.exc, conv.warns)
        ELSE Returned(BitOr(ShiftLeft(packed_data, t.size_in_bits),
                            IF overflow THEN twos + Pow2(t.word_length) ELSE twos),
                      IF clamped THEN Append(conv.warns, Coerced) ELSE conv.warns)

\* _FXP.pack_data from the range test on
PackFXPData(t, overflow, data, packed_data) ==
    IF DecLess(data, t.minimum)
    THEN PackFXPWord(t, overflow, data, ConvertValueToFxp(t, t.minimum), TRUE,
                     packed_data)
    ELSE IF DecLess(t.maximum, data)
    THEN PackFXPWord(t, overflow, data, ConvertValueToFxp(t, t.maximum), TRUE,
                     packed_data)
    ELSE PackFXPWord(t, overflow, data, ConvertValueToFxp(t, data), FALSE,
                     packed_data)

\* _FXP.pack_data from the result of _validate_and_parse_user_input on
PackFXPInput(t, input, packed_data) ==
    IF input.exc # NoExc THEN Raised(input.exc, << >>)
    ELSE PackFXPData(t, input.overflow, input.data, packed_data)

PackFXP(t, data_to_pack, packed_data) ==
    PackFXPInput(t, ValidateAndParseUserInput(t, data_to_pack), packed_data)

RECURSIVE PackData(_, _, _)
RECURSIVE PackCluster(_, _, _, _, _)
RECURSIVE PackArray(_, _, _, _, _)

\* _Cluster.pack_data once member i has been packed with result r
PackClusterNext(children, i, data_to_pack, r, warns) ==
    IF r.exc # NoExc THEN Raised(r.exc, warns \o r.warns)
    ELSE PackCluster(children, i + 1, data_to_pack, r.blob, warns \o r.warns)

\* _Array.pack_data once element i has been packed with result r
PackArrayNext(t, i, data_to_pack, r, warns) ==
    IF r.exc # NoExc THEN Raised(r.exc, warns \o r.warns)
    ELSE PackArray(t, i + 1, data_to_pack, r.blob, warns \o r.warns)

\* the loop of _Cluster.pack_data from member i on
PackCluster(children, i, data_to_pack, packed_data, warns) ==
    IF i > Len(children) THEN Returned(packed_data, warns)
    ELSE PackClusterNext(children, i, data_to_pack,
                         PackData(children[i], Lookup(data_to_pack, children[i].name),
                                  packed_data),
                         warns)

\* the loop of _Array.pack_data from index i on
PackArray(t, i, data_to_pack, packed_data, warns) ==
    IF i >= t.size THEN Returned(packed_data, warns)
    ELSE PackArrayNext(t, i, data_to_pack,
                       PackData(t.subtype, data_to_pack[i + 1], packed_data), warns)

PackData(t, data_to_pack, packed_data) ==
    CASE t.kind = "String"  -> Returned(packed_data, << >>)
      [] t.kind = "Numeric" -> PackNumeric(t, data_to_pack, packed_data)
      [] t.kind = "Bool"    -> PackBool(data_to_pack, packed_data)
      [] t.kind = "Cluster" -> PackCluster(t.children, 1, data_to_pack, packed_data, << >>)
      [] t.kind = "Array"   -> PackArray(t, 0, data_to_pack, packed_data, << >>)
      [] t.kind = "FXP"     -> PackFXP(t, data_to_pack, packed_data)

(***************************************************************************)
(* Inputs: the schemas a type is built from, the blobs handed to           *)
(* unpack_data and the values handed to pack_data.                         *)
(***************************************************************************)
MaxWL == 3

MaxEnumBits == 8

ExtraBits == 1

MaxHalfSteps == 9

\* integer word lengths: fractional, integral and beyond the word on both
\* sides, and the extremes where products need more digits than the Decimal
\* context keeps
FxpIWLs == {-40, -1, 0, 1, 3, 100}

\* the largest integer word length whose delta, 2^(IWL - 1) for a word of
\* one bit, is below the float range of _calculate_delta
UnderflowIWL == MinFloatExp

FxpSchemas ==
    {XFxp("f", sg, wl, iwl, ov, "0.000000", "0.000000", "0.000000") :
        sg \in {"true", "false"}, wl \in 1..MaxWL, iwl \in FxpIWLs,
        ov \in {"true", "false"}}
    \cup {XFxp("f", "true", 2, iwl, Absent, dmm, dmm, dmm) :
        iwl \in {1, 100}, dmm \in {"0.000000", "1.000000"}}
    \cup {XFxp("f", "True", 15, 15, "True", "1.000000", "-16384.000000", "16383.000000")}
    \cup {XFxp("f", sg, 1, UnderflowIWL, "false", "0.000000", "0.000000", "0.000000") :
        sg \in {"true", "false"}}

FxpMember(name, signed, wl, iwl, overflow) ==
    XFxp(name, signed, wl, iwl, overflow, "0.000000", "0.000000", "0.000000")

LeafSchemas ==
    {XLeaf("Boolean", "b"), XLeaf("U8", "n"), XLeaf("I8", "n"),
     XLeaf("U16", "n"), XLeaf("I16", "n"), XLeaf("EnumU8", "n"),
     XLeaf("String", "s")}

ClusterSchemas ==
    {XCluster("c", << XLeaf("U16", "A"), XLeaf("U16", "B") >>),
     XCluster("c", << XLeaf("Boolean", "A"),
                      FxpMember("B", "true", 2, 1, "true"),
                      XLeaf("String", "C"),
                      XLeaf("Boolean", "D") >>),
     XCluster("c", << XLeaf("I8", "A"), XLeaf("String", "B"),
                      FxpMember("C", "false", 3, 1, "false") >>),
     XCluster("c", << FxpMember("A", "true", 2, 2, "false"),
                      XCluster("B", << XLeaf("Boolean", "A"),
                                       FxpMember("B", "true", 1, 1, "true") >>),
                      XArray("C", 2, XLeaf("Boolean", Absent)) >>),
     XCluster("c", << XLeaf("Boolean", "A"),
                      FxpMember("B", "true", 2, 100, "false") >>),
     XCluster("c", << FxpMember("A", "false", 1, UnderflowIWL, "false"),
                      XLeaf("Boolean", "B") >>),
     XCluster("c", << >>)}

ArraySchemas ==
    {XArray("a", 3, FxpMember(Absent, "true", 2, 0, "false")),
     XArray("a", 2, XLeaf("I8", Absent)),
     XArray("a", 4, XLeaf("Boolean", Absent)),
     XArray("a", 2, XCluster("e", << XLeaf("Boolean", "A"),
                                     FxpMember("B", "false", 2, 2, "true") >>)),
     XArray("a", 2, XArray("e", 2, FxpMember(Absent, "true", 1, 1, "false"))),
     XArray("a", 0, XLeaf("U8", Absent))}

\* schemas _parse_type rejects, and their nearest neighbours that build
\* clusters with String members before, between and after the others
StringSchemas ==
    {XCluster("c", << XLeaf("String", "S"), XLeaf("U8", "A"), XLeaf("String", "T"),
                      XLeaf("Boolean", "B"), XLeaf("String", "U") >>),
     XCluster("c", << XLeaf("I8", "A"),
                      XCluster("N", << XLeaf("String", "S"), XLeaf("Boolean", "B") >>),
                      XLeaf("String", "T"), XLeaf("String", "U"),
                      FxpMember("F", "true", 2, 1, "true") >>),
     XCluster("c", << XLeaf("String", "S") >>)}

UnsupportedSchemas ==
    {XLeaf("CFXP", "x"), XLeaf("CDB", "x"), XLeaf("Path", "x"),
     XLeaf("U128", "x"), XLeaf("Enum", "x"),
     XLeaf("XU8", "x"), XLeaf("Bool", "x"), XLeaf("Sgl", "x"),
     XCluster("c", << XLeaf("U16", "a"), XLeaf("CFXP", "b") >>),
     XCluster("c", << XLeaf("U8", "a"),
                      XCluster("d", << XLeaf("CFXP", "b") >>) >>),
     XArray("a", 2, XLeaf("CFXP", Absent)),
     XCluster("c", << XArray("a", 2, XCluster("d", << XLeaf("Boolean", "q"),
                                                      XLeaf("CFXP", "b") >>)) >>),
     XCluster("c", << XLeaf("U8", "a"), XLeaf("U8", "a"), XLeaf("CFXP", "b") >>),
     XCluster("c", << XLeaf("CFXP", "b"), XLeaf("U8", "a"), XLeaf("U8", "a") >>),
     XCluster("c", << XLeaf("XU8", "a"), XLeaf("CFXP", "b") >>),
     XCluster("c", << XLeaf("U8", "a"), XLeaf("Path", "b") >>)}

DuplicateSchemas ==
    {XCluster("c", << XLeaf("U16", "N"), XLeaf("I8", "N") >>),
     XCluster("c", << XLeaf("U16", "A"), XCluster("B", << XLeaf("U8", "A") >>) >>),
     XCluster("A", << XLeaf("U16", "A") >>),
     XCluster("c", << XCluster("d", << XLeaf("U8", "A"), XLeaf("U8", "A") >>) >>),
     XCluster("c", << XLeaf("U8", Absent), XLeaf("Boolean", Absent) >>),
     XCluster("c", << XLeaf("U8", "A"), XLeaf("U8", "a") >>),
     XCluster("c", << XLeaf("U8", "A"), XCluster("A", << >>) >>),
     XCluster("c", << XLeaf("I8", "A"), XLeaf("Boolean", "B"), XLeaf("String", "A") >>)}

SignlessSchemas ==
    {XFxp("f", Absent, wl, 1, ov, "0.000000", "0.000000", "0.000000") :
        wl \in 1..MaxWL, ov \in {"true", "false", Absent}}
    \cup {XCluster("c", << XLeaf("Boolean", "A"),
                           FxpMember("B", Absent, 2, 1, "false") >>),
          XArray("a", 2, FxpMember(Absent, Absent, 2, 1, "true"))}

Schemas ==
    FxpSchemas \cup LeafSchemas \cup ClusterSchemas \cup ArraySchemas
        \cup UnsupportedSchemas \cup DuplicateSchemas \cup SignlessSchemas
        \cup StringSchemas

\* bit patterns tried on types too wide to enumerate
SampleBlobs ==
    {0, 1, 2, 255, 256, 258, 511, 32767, 32768, 58518, 65535, 65536, 65538,
     131071, 16711935}

IsLeaf(t) ==
    t.kind \notin {"Cluster", "Array"}

Blobs(t) ==
    LET bits == SizeInBits(t) + (IF IsLeaf(t) THEN ExtraBits ELSE 0)
    IN  IF bits <= MaxEnumBits + ExtraBits THEN 0..(Pow2(bits) - 1)
        ELSE {b \in SampleBlobs : bits >= 31 \/ b < Pow2(bits)}

One ==
    DecFromInt(1)

\* 1.0000000000000000000000000000001 and -1.99999999999999999999999999999999
LongDecimals ==
    {[neg |-> FALSE, coef |-> << 1 >> \o [i \in 1..30 |-> 0] \o << 1 >>, exp |-> -31],
     [neg |-> TRUE, coef |-> << 1 >> \o [i \in 1..32 |-> 9], exp |-> -32]}

\* k * 2^e without rounding, as a user builds any Decimal
Dyadic(k, e) ==
    DecScale2(DecFromInt(k), e)

FxpNumbers(t, steps) ==
    IF t.delta = Zero THEN {DecFromInt(k) : k \in {-1, 0, 1}}
    ELSE {Dyadic(k, t.integer_word_length - t.word_length - 1) : k \in steps}

FxpValues(t, numbers) ==
    IF t.overflow_enabled
    THEN {Num(d) : d \in numbers} \cup {Pair(o, d) : o \in BOOLEAN, d \in numbers}
    ELSE {Num(d) : d \in numbers}

NumericValues(t) ==
    LET top == Pow2(t.size_in_bits)
    IN  IF t.size_in_bits <= MaxEnumBits
        THEN (-(top \div 2) - 2)..(top + 1)
        ELSE {-top - 1, -(top \div 2) - 1, -(top \div 2), -2, -1, 0, 1, 2,
              (top \div 2) - 1, top \div 2, top - 1, top, top + 1}

RECURSIVE MemberValues(_)
RECURSIVE ClusterValues(_, _)
RECURSIVE ArrayValues(_, _)

\* mappings with one item per member from member i on
ClusterValues(children, i) ==
    IF i > Len(children) THEN {<< >>}
    ELSE {<< << children[i].name, v >> >> \o rest :
             v \in MemberValues(children[i]),
             rest \in ClusterValues(children, i + 1)}

ArrayValues(t, n) ==
    IF n = 0 THEN {<< >>}
    ELSE {<< v >> \o rest : v \in MemberValues(t), rest \in ArrayValues(t, n - 1)}

\* a few values per leaf for the members of a composite
MemberValues(t) ==
    CASE t.kind = "String"  -> {""}
      [] t.kind = "Bool"    -> BOOLEAN
      [] t.kind = "Numeric" -> IF t.size_in_bits <= MaxEnumBits
                               THEN {-1, 0, 1, Pow2(t.size_in_bits - 1)}
                               ELSE {0, 1, 2}
      [] t.kind = "FXP"     ->
            IF t.overflow_enabled
            THEN {Pair(FALSE, d) : d \in FxpNumbers(t, {0, 2})}
                 \cup {Pair(TRUE, d) : d \in FxpNumbers(t, {-2})}
            ELSE {Num(d) : d \in FxpNumbers(t, {-2, 0, 2})}
      [] t.kind = "Cluster" -> ClusterValues(t.children, 1)
      [] t.kind = "Array"   -> ArrayValues(t.subtype, t.size)

\* multiples of delta / 2: every one from below the minimum to above the
\* maximum for a short word, the corners of the range for a long one
FxpSteps(t) ==
    LET span == Pow2(t.word_length + 1)
    IN  IF t.word_length <= MaxWL + 1
        THEN (-MaxHalfSteps - span)..(MaxHalfSteps + span)
        ELSE {-span - 2, -span - 1, -span, -span + 2, -3, -2, -1, 0, 1, 2, 3,
              span - 2, span - 1, span, span + 2}

Values(t) ==
    CASE t.kind = "Numeric" -> NumericValues(t)
      [] t.kind = "FXP"     ->
            FxpValues(t, FxpNumbers(t, FxpSteps(t)) \cup LongDecimals)
            \cup (IF t.overflow_enabled THEN {} ELSE {Pair(FALSE, Zero)})
      [] OTHER              -> MemberValues(t)

\* packed_data: nothing accumulated yet, or the bits of earlier members
Accumulators(t) ==
    IF SizeInBits(t) <= 3 * MaxEnumBits THEN {0, 5} ELSE {0}

(***************************************************************************)
(* State: the type built from a schema, and the last call made on it.      *)
(* A behaviour builds one type, makes one unpack_data or pack_data call    *)
(* and may hand the result to the inverse call.                            *)
(***************************************************************************)
VARIABLES schema, ty, op, acc, arg, ret, orig, warns, exc

\* a register of the session that holds a type of the bitfile
VARIABLES reg

\* threads calling into one type: the action of the warnings filter on a
\* UserWarning, the __warningregistry__ of the module, and the frame of
\* each thread's call
VARIABLES filter, registry, calls

\* the host side of a session: a wrapped driver call and its status check
\* (driver), a bitfile being loaded (bitfile), the buffer of a FIFO and its
\* accessor (fifo), a wait_on_irqs call (irq), an acquired FIFO region
\* (region), a session used as a context manager (session), and a call on
\* a type wider than a machine word (wide)
VARIABLES driver, bitfile, fifo, irq, region, session, wide

vars == << schema, ty, op, acc, arg, ret, orig, warns, exc, reg,
           filter, registry, calls,
           driver, bitfile, fifo, irq, region, session, wide >>

host == << driver, bitfile, fifo, irq, region, session, wide >>

codec == << schema, ty, op, acc, arg, ret, orig, warns, exc >>

threads == << filter, registry, calls >>

\* what the calls made on a type directly leave alone
others == << reg, filter, registry, calls, host >>

NoRegister == [op |-> "none"]

NoHost ==
    /\ driver = [op |-> "none"]
    /\ bitfile = [op |-> "none"]
    /\ fifo = [op |-> "none"]
    /\ irq = [op |-> "none"]
    /\ region = [op |-> "none"]
    /\ session = [op |-> "none"]
    /\ wide = [op |-> "none"]

NoThreads ==
    filter = "default" /\ registry = {} /\ calls = << >>

None == "None"

NoCall ==
    /\ acc = 0
    /\ arg = None
    /\ ret = None
    /\ orig = None
    /\ warns = << >>
    /\ exc = NoExc

Init ==
    /\ schema = None
    /\ ty = [kind |-> "None"]
    /\ op = "init"
    /\ NoCall
    /\ reg = NoRegister
    /\ NoThreads
    /\ NoHost

Built ==
    op # "init" /\ ~IsError(ty)

\* what _parse_type leaves: the type t it returned or the exception it
\* raised
Parsed(t) ==
    /\ ty' = t
    /\ exc' = IF IsError(t) THEN t.exc ELSE NoExc

\* what a pack_data call leaves: its result r
Packed(r) ==
    /\ ret' = IF r.exc = NoExc THEN r.blob ELSE None
    /\ warns' = r.warns
    /\ exc' = r.exc

\* _parse_type(type_xml)
ParseTypeCall(x) ==
    /\ op = "init"
    /\ schema' = x
    /\ Parsed(ParseType(x))
    /\ op' = "parse"
    /\ UNCHANGED << acc, arg, ret, orig, warns >>
    /\ UNCHANGED others

\* ty.unpack_data(data)
UnpackCall(data) ==
    /\ op' = "unpack"
    /\ arg' = data
    /\ ret' = UnpackData(ty, data)
    /\ orig' = None
    /\ warns' = << >>
    /\ exc' = NoExc
    /\ UNCHANGED << schema, ty, acc >>
    /\ UNCHANGED others

\* ty.pack_data(data_to_pack, packed_data)
PackCall(data_to_pack, packed_data) ==
    /\ Packed(PackData(ty, data_to_pack, packed_data))
    /\ op' = "pack"
    /\ acc' = packed_data
    /\ arg' = data_to_pack
    /\ orig' = None
    /\ UNCHANGED << schema, ty >>
    /\ UNCHANGED others

Unpack ==
    op = "parse" /\ Built /\ \E data \in Blobs(ty) : UnpackCall(data)

Pack ==
    op = "parse" /\ Built
    /\ \E v \in Values(ty), p \in Accumulators(ty) : PackCall(v, p)

\* ty.pack_data(ty.unpack_data(data), 0)
PackUnpacked ==
    /\ op = "unpack"
    /\ Packed(PackData(ty, ret, 0))
    /\ op' = "repack"
    /\ acc' = 0
    /\ orig' = arg
    /\ arg' = ret
    /\ UNCHANGED << schema, ty >>
    /\ UNCHANGED others

\* ty.unpack_data(ty.pack_data(data_to_pack, 0))
UnpackPacked ==
    /\ op = "pack" /\ exc = NoExc /\ acc = 0
    /\ op' = "reunpack"
    /\ orig' = arg
    /\ arg' = ret
    /\ ret' = UnpackData(ty, ret)
    /\ UNCHANGED << schema, ty, acc, warns, exc >>
    /\ UNCHANGED others

Next ==
    \/ \E x \in Schemas : ParseTypeCall(x)
    \/ Unpack
    \/ Pack
    \/ PackUnpacked
    \/ UnpackPacked

Spec == Init /\ [][Next]_vars

(***************************************************************************)
(* _DataConvertingRegister: the packed value of a register travels as an   *)
(* array of U32.  A packed value can be wider than any one word, so a      *)
(* Python int is held here as the sequence of its bits, most significant   *)
(* first (leading zeros allowed), and a U32 as WordBits bits.              *)
(***************************************************************************)
WordBits == 32

MaxRegWords == 3

Zeros(n) ==
    [i \in 1..n |-> 0]

\* data << n
BitsShiftLeft(bits, n) ==
    bits \o Zeros(n)

\* data >> n
BitsShiftRight(bits, n) ==
    IF Len(bits) <= n THEN << >> ELSE SubSeq(bits, 1, Len(bits) - n)

\* data & mask_32bit, stored in a c_uint32
BitsLowWord(bits) ==
    IF Len(bits) >= WordBits
    THEN SubSeq(bits, Len(bits) - WordBits + 1, Len(bits))
    ELSE Zeros(WordBits - Len(bits)) \o bits

\* shifted + word for a shifted whose low WordBits bits are zero and a
\* word below 2^WordBits
BitsAddWord(shifted, word) ==
    SubSeq(shifted, 1, Len(shifted) - WordBits) \o word

\* int(ceil(size_in_bits / 32.0))
TransferLen(size_in_bits) ==
    (size_in_bits + WordBits - 1) \div WordBits

\* the loop of _convert_to_u32_array with n words still to extract
RECURSIVE ExtractWords(_, _)
ExtractWords(data, n) ==
    IF n = 0 THEN << >>
    ELSE << BitsLowWord(data) >> \o ExtractWords(BitsShiftRight(data, WordBits), n - 1)

\* _convert_to_u32_array shifting whatever the number of words
ConvertToU32ArrayJustified(transfer_len, size_in_bits, data) ==
    Reverse(ExtractWords(
        BitsShiftLeft(data, WordBits * transfer_len - size_in_bits), transfer_len))

ConvertToU32Array(transfer_len, size_in_bits, data) ==
    Reverse(ExtractWords(
        IF transfer_len > 1
        THEN BitsShiftLeft(data, WordBits * transfer_len - size_in_bits)
        ELSE data,
        transfer_len))

\* the loop of _combine_array_of_u32_into_one_value from word index on
RECURSIVE CombineWords(_, _, _, _)
CombineWords(data, index, transfer_len, combinedData) ==
    IF index > transfer_len THEN combinedData
    ELSE CombineWords(data, index + 1, transfer_len,
                      BitsAddWord(BitsShiftLeft(combinedData, WordBits), data[index]))

CombineArrayOfU32IntoOneValue(transfer_len, size_in_bits, data) ==
    IF transfer_len > 1
    THEN BitsShiftRight(CombineWords(data, 1, transfer_len, << >>),
                        WordBits * transfer_len - size_in_bits)
    ELSE CombineWords(data, 1, transfer_len, << >>)

\* sizes of registers of up to MaxRegWords words: each number of whole
\* words, alone and with a remainder
RegSizes ==
    {n \in 0..(WordBits * MaxRegWords) : (n % WordBits) \in {0, 1, 5, 22, 31}}

\* packed values of n bits
RegData(n) ==
    {Zeros(n),
     [i \in 1..n |-> 1],
     [i \in 1..n |-> IF i = 1 THEN 1 ELSE 0],
     [i \in 1..n |-> IF i = n THEN 1 ELSE 0],
     [i \in 1..n |-> i % 2],
     [i \in 1..n |-> (i + 1) % 2]}

\* _DataConvertingRegister.__init__ for a type of size_in_bits bits, and
\* the packed value of the next write
NewRegister(size_in_bits, data) ==
    [op |-> "new", size_in_bits |-> size_in_bits,
     transfer_len |-> TransferLen(size_in_bits),
     data |-> data, array |-> << >>, value |-> << >>]

RegInit ==
    /\ schema = None
    /\ ty = [kind |-> "None"]
    /\ op = "init"
    /\ NoCall
    /\ NoThreads
    /\ NoHost
    /\ \E n \in RegSizes : \E d \in RegData(n) : reg = NewRegister(n, d)

\* write from the packed value on: the words handed to the write function
RegWrite ==
    /\ reg.op = "new"
    /\ reg' = [reg EXCEPT !.op = "written",
                          !.array = ConvertToU32Array(reg.transfer_len,
                                                      reg.size_in_bits, reg.data)]
    /\ UNCHANGED << codec, threads, host >>

\* read up to the packed value: the words the read function hands back are
\* the words written
RegRead ==
    /\ reg.op = "written"
    /\ reg' = [reg EXCEPT !.op = "read",
                          !.value = CombineArrayOfU32IntoOneValue(
                                        reg.transfer_len, reg.size_in_bits, reg.array)]
    /\ UNCHANGED << codec, threads, host >>

RegNext ==
    \/ RegWrite
    \/ RegRead

RegSpec == RegInit /\ [][RegNext]_vars

(***************************************************************************)
(* Threads calling pack_data and unpack_data on one type.  The type is the *)
(* object every thread holds (ty); what a call keeps in local variables    *)
(* (packed_data, data, result) is in its own frame; warn() goes through    *)
(* the warnings module, whose registry belongs to the module and is shared *)
(* by all callers.  A thread can be preempted between the calls a          *)
(* composite makes on its members.                                         *)
(***************************************************************************)
NumThreads == 2

Threads == 1..NumThreads

\* the actions a warnings filter can take on a UserWarning: 'default'
\* (shown once per location, what Python does unless told otherwise) and
\* 'always'
WarningActions == {"default", "always"}

ThreadSchemas ==
    {FxpMember("f", "false", 2, 2, "false"),
     XCluster("c", << XLeaf("Boolean", "A"), FxpMember("B", "false", 2, 1, "true") >>),
     XArray("a", 2, FxpMember(Absent, "false", 1, 1, "false"))}

ThreadCalls(t) ==
    {[kind |-> "pack", input |-> v] : v \in MemberValues(t)}
    \cup {[kind |-> "unpack", input |-> b] : b \in {0, Pow2(SizeInBits(t)) - 1}}

\* the objects a call on t calls in turn, in declaration order
Members(t) ==
    CASE t.kind = "Cluster" -> t.children
      [] t.kind = "Array"   -> [k \in 1..t.size |-> t.subtype]
      [] OTHER              -> << t >>

\* data_to_pack[child.name], data_to_pack[i], or data_to_pack itself
ItemOf(t, data_to_pack, k) ==
    CASE t.kind = "Cluster" -> Lookup(data_to_pack, t.children[k].name)
      [] t.kind = "Array"   -> data_to_pack[k]
      [] OTHER              -> data_to_pack

\* the warnings of w that warn() shows: each one under 'always'; under
\* 'default' the first one from a location the registry does not hold yet
\* (every warning of the module is raised at the one line of
\* warn_coerced_data)
Shown(w, action, seen) ==
    IF action = "always" THEN w
    ELSE IF w = << >> \/ Coerced \in seen THEN << >>
    ELSE << w[1] >>

\* the registry once warn() has handled the warnings w
Registered(w, action, seen) ==
    IF action = "always" \/ w = << >> THEN seen ELSE seen \cup {Coerced}

Idle == [pc |-> "idle"]

\* the frame of a call c on entry
Frame(c) ==
    [pc |-> "run", kind |-> c.kind, input |-> c.input, i |-> 0,
     data |-> IF c.kind = "pack" THEN 0 ELSE c.input,
     results |-> << >>, issued |-> << >>, shown |-> << >>,
     out |-> None, exc |-> NoExc]

ThreadInit ==
    /\ \E x \in ThreadSchemas : schema = x /\ ty = ParseType(x)
    /\ op = "parse"
    /\ NoCall
    /\ reg = NoRegister
    /\ NoHost
    /\ filter \in WarningActions
    /\ registry = {}
    /\ calls = [t \in Threads |-> Idle]

\* thread t calls ty.pack_data(v, 0) or ty.unpack_data(b)
ThreadCall(t) ==
    /\ calls[t].pc = "idle"
    /\ \E c \in ThreadCalls(ty) : calls' = [calls EXCEPT ![t] = Frame(c)]
    /\ UNCHANGED << codec, reg, filter, registry, host >>

\* the frame f once its next member has been packed with result r
PackedMember(f, r) ==
    IF r.exc # NoExc
    THEN [f EXCEPT !.pc = "done", !.exc = r.exc,
                   !.issued = f.issued \o r.warns,
                   !.shown = f.shown \o Shown(r.warns, filter, registry)]
    ELSE [f EXCEPT !.i = f.i + 1, !.data = r.blob,
                   !.issued = f.issued \o r.warns,
                   !.shown = f.shown \o Shown(r.warns, filter, registry)]

\* what packing a member with result r leaves in thread t
ThreadPacked(t, r) ==
    /\ calls' = [calls EXCEPT ![t] = PackedMember(calls[t], r)]
    /\ registry' = Registered(r.warns, filter, registry)

\* one iteration of the loop of pack_data in thread t
ThreadPackStep(t) ==
    /\ calls[t].pc = "run" /\ calls[t].kind = "pack"
    /\ calls[t].i < Len(Members(ty))
    /\ ThreadPacked(t, PackData(Members(ty)[calls[t].i + 1],
                                ItemOf(ty, calls[t].input, calls[t].i + 1),
                                calls[t].data))
    /\ UNCHANGED << codec, reg, filter, host >>

\* the frame f once member m has been unpacked to value v: a cluster reads
\* its members last to first and its mapping ends up in declaration order,
\* an array collects in reading order and reverses on return
UnpackedMember(f, m, v) ==
    [f EXCEPT !.i = f.i + 1,
              !.data = ShiftRight(f.data, SizeInBits(m)),
              !.results = IF ty.kind = "Cluster"
                          THEN << << m.name, v >> >> \o f.results
                          ELSE Append(f.results, v)]

\* the member unpack_data reads after k others
NextUnpacked(t, k) ==
    IF t.kind = "Cluster" THEN t.children[Len(t.children) - k]
    ELSE Members(t)[k + 1]

\* one child.unpack_data call of unpack_data in thread t
ThreadUnpackStep(t) ==
    /\ calls[t].pc = "run" /\ calls[t].kind = "unpack"
    /\ calls[t].i < Len(Members(ty))
    /\ calls' = [calls EXCEPT ![t] =
           UnpackedMember(calls[t], NextUnpacked(ty, calls[t].i),
                          UnpackData(NextUnpacked(ty, calls[t].i), calls[t].data))]
    /\ UNCHANGED << codec, reg, filter, registry, host >>

\* the value the call of frame f returns
Outcome(f) ==
    IF f.kind = "pack" THEN f.data
    ELSE CASE ty.kind = "Cluster" -> f.results
           [] ty.kind = "Array"   -> Reverse(f.results)
           [] OTHER               -> f.results[1]

\* the call of thread t returns
ThreadReturn(t) ==
    /\ calls[t].pc = "run"
    /\ calls[t].i = Len(Members(ty))
    /\ calls' = [calls EXCEPT ![t] =
           [calls[t] EXCEPT !.pc = "done", !.out = Outcome(calls[t])]]
    /\ UNCHANGED << codec, reg, filter, registry, host >>

ThreadNext ==
    \E t \in Threads :
        \/ ThreadCall(t)
        \/ ThreadPackStep(t)
        \/ ThreadUnpackStep(t)
        \/ ThreadReturn(t)

ThreadSpec == ThreadInit /\ [][ThreadNext]_vars

(***************************************************************************)
(* Reference notions the properties are stated with: exact arithmetic on   *)
(* n * 2^k, the representable domain of a type, sizes and offsets          *)
(* computed in closed form.                                                *)
(***************************************************************************)
\* 2^(IWL - WL) is 2^Scale(t)
Scale(t) ==
    t.integer_word_length - t.word_length

\* d = n * 2^k, decided without rounding
ValueIs(d, n, k) ==
    DecScale2(d, -k) = DecFromInt(n)

\* d is an integer multiple of 2^k
IsMultiple(d, k) ==
    DecScale2(d, -k).exp >= 0

\* the integer d / 2^k truncated toward zero, without rounding
ExactRaw(d, k) ==
    DecToInt(DecScale2(d, -k))

MinRaw(t) ==
    IF t.signed THEN -Pow2(t.word_length - 1) ELSE 0

MaxRaw(t) ==
    IF t.signed THEN Pow2(t.word_length - 1) - 1 ELSE Pow2(t.word_length) - 1

\* d is a multiple of delta within [minimum, maximum]
FxpRepresentable(t, d) ==
    \/ d = Zero
    \/ /\ Scale(t) >= MinFloatExp
       /\ IsMultiple(d, Scale(t))
       /\ ExactRaw(d, Scale(t)) >= MinRaw(t)
       /\ ExactRaw(d, Scale(t)) <= MaxRaw(t)

RECURSIVE InDomain(_, _)
InDomain(t, v) ==
    CASE t.kind = "String"  -> v = ""
      [] t.kind = "Bool"    -> v \in BOOLEAN
      [] t.kind = "Numeric" ->
            IF t.signed
            THEN v >= -Pow2(t.size_in_bits - 1) /\ v < Pow2(t.size_in_bits - 1)
            ELSE v >= 0 /\ v < Pow2(t.size_in_bits)
      [] t.kind = "FXP"     ->
            /\ v.kind = (IF t.overflow_enabled THEN "pair" ELSE "num")
            /\ FxpRepresentable(t, v.num)
      [] t.kind = "Cluster" ->
            \A i \in 1..Len(t.children) : InDomain(t.children[i], v[i][2])
      [] t.kind = "Array"   ->
            \A i \in 1..t.size : InDomain(t.subtype, v[i])

IsComposite(t) ==
    t.kind \in {"Cluster", "Array"}

\* C1 -- Round-trip: for every type tree and every value v of its
\* representable domain, unpack_data(pack_data(v, 0)) equals v.
C1_ValueRoundTrip ==
    (op = "reunpack" /\ InDomain(ty, orig)) => ret = orig

\* x >> n, with no power of two above 2^16
HighBits(x, n) ==
    IF n <= 16 THEN x \div Pow2(n) ELSE (x \div Pow2(16)) \div Pow2(n - 16)

\* the size-bit field of blob that starts off bits above its lowest bit
Field(blob, off, size) ==
    HighBits(blob, off) % Pow2(size)

\* sum of size_in_bits of the members declared after member i
RECURSIVE SizeAfter(_, _)
SizeAfter(children, i) ==
    IF i >= Len(children) THEN 0
    ELSE SizeInBits(children[i + 1]) + SizeAfter(children, i + 1)

HasWarning(w) ==
    \E i \in DOMAIN warns : warns[i] = w

ExampleCluster ==
    XCluster("c", << XLeaf("U16", "A"), XLeaf("U16", "B") >>)

\* C2 -- Cluster bit layout: member i is read from, and packed into, the
\* field whose offset from the least-significant bit is the sum of the sizes
\* of the members declared after it; the unpacked mapping lists the members
\* in declaration order; U16 A then U16 B unpacks 0x00010002 to {A: 1, B: 2}.
C2_ClusterLayout ==
    /\ (op = "unpack" /\ ty.kind = "Cluster") =>
          /\ Len(ret) = Len(ty.children)
          /\ \A i \in 1..Len(ty.children) :
                LET child == ty.children[i]
                IN  ret[i] = << child.name,
                                UnpackData(child, Field(arg, SizeAfter(ty.children, i),
                                                        SizeInBits(child))) >>
    /\ (op = "pack" /\ ty.kind = "Cluster" /\ exc = NoExc) =>
          /\ HighBits(ret, ty.size_in_bits) = acc
          /\ \A i \in 1..Len(ty.children) :
                LET child == ty.children[i]
                IN  Field(ret, SizeAfter(ty.children, i), SizeInBits(child))
                       = PackData(child, Lookup(arg, child.name), 0).blob
    /\ (op = "unpack" /\ schema = ExampleCluster /\ arg = 65538) =>
          ret = << << "A", 1 >>, << "B", 2 >> >>

\* the two-U16 cluster has unpacked 0x00010002
C2_Witness ==
    /\ op = "unpack" /\ schema = ExampleCluster /\ arg = 65538
    /\ ret = << << "A", 1 >>, << "B", 2 >> >>

\* C3 -- Array bit layout: element i (0-indexed) of an array of length L is
\* read from, and packed into, the element-sized field at offset
\* (L-1-i) * element size, and the unpacked list has exactly L elements.
C3_ArrayLayout ==
    /\ (op = "unpack" /\ ty.kind = "Array") =>
          /\ Len(ret) = ty.size
          /\ \A i \in 0..(ty.size - 1) :
                ret[i + 1] = UnpackData(ty.subtype,
                                        Field(arg, (ty.size - 1 - i) * SizeInBits(ty.subtype),
                                              SizeInBits(ty.subtype)))
    /\ (op = "pack" /\ ty.kind = "Array" /\ exc = NoExc) =>
          /\ HighBits(ret, ty.size_in_bits) = acc
          /\ \A i \in 0..(ty.size - 1) :
                Field(ret, (ty.size - 1 - i) * SizeInBits(ty.subtype),
                      SizeInBits(ty.subtype))
                   = PackData(ty.subtype, arg[i + 1], 0).blob

\* an array of three elements has unpacked to three different values
C3_Witness ==
    /\ op = "unpack" /\ ty.kind = "Array" /\ ty.size = 3
    /\ ret[1] # ret[2] /\ ret[2] # ret[3] /\ ret[1] # ret[3]

\* the integer the low WL bits of raw stand for
FxpWord(t, raw) ==
    LET low == raw % Pow2(t.word_length)
    IN  IF t.signed /\ low >= Pow2(t.word_length - 1)
        THEN low - Pow2(t.word_length) ELSE low

\* C4 -- FXP unpack: the decoded value is the low WL bits, unsigned or as a
\* WL-bit two's-complement integer when signed, times delta = 2^(IWL-WL);
\* the result is the value alone, or (bit WL of raw, value) with overflow
\* enabled (WL=15, IWL=15: 0b1110010010010110 is (True, -7018)).
C4_FxpUnpack ==
    (op = "unpack" /\ ty.kind = "FXP") =>
        /\ ret.kind = (IF ty.overflow_enabled THEN "pair" ELSE "num")
        /\ ValueIs(ret.num, FxpWord(ty, arg), Scale(ty))
        /\ ty.overflow_enabled =>
              ret.overflow = ((arg \div Pow2(ty.word_length)) % 2 = 1)
        /\ (ty.word_length = 15 /\ ty.signed /\ arg = 58518) =>
              ret = Pair(TRUE, DecFromInt(-7018))
        /\ (ty.word_length = 15 /\ ty.signed /\ arg = 65535) =>
              ret = Pair(TRUE, DecFromInt(-1))

\* a pack_data argument of the shape the type takes
WellFormedFxpInput(t, v) ==
    v.kind = "num" \/ t.overflow_enabled

\* C5 -- FXP clamping on pack: a value below minimum is packed as the
\* encoding of minimum (2^(WL-1) when signed, 0 when unsigned), a value
\* above maximum as the encoding of maximum (2^(WL-1)-1 or 2^WL-1), each
\* with a coercion warning and a returned result.
C5_FxpClamp ==
    (op = "pack" /\ ty.kind = "FXP" /\ WellFormedFxpInput(ty, arg)) =>
        /\ DecLess(arg.num, ty.minimum) =>
              /\ exc = NoExc
              /\ HasWarning(Coerced)
              /\ ret % Pow2(ty.word_length) = MinRaw(ty) % Pow2(ty.word_length)
        /\ DecLess(ty.maximum, arg.num) =>
              /\ exc = NoExc
              /\ HasWarning(Coerced)
              /\ ret % Pow2(ty.word_length) = MaxRaw(ty)

\* C6 -- FXP quantization on pack: for a value within [minimum, maximum]
\* the packed word encodes value/delta truncated toward zero, and a coercion
\* warning is emitted exactly when the value is not a multiple of delta.
C6_FxpQuantize ==
    (/\ op = "pack" /\ ty.kind = "FXP" /\ WellFormedFxpInput(ty, arg)
     /\ ~DecLess(arg.num, ty.minimum) /\ ~DecLess(ty.maximum, arg.num)) =>
        /\ exc = NoExc
        /\ ret % Pow2(ty.word_length)
              = ExactRaw(arg.num, Scale(ty)) % Pow2(ty.word_length)
        /\ HasWarning(Coerced) <=> ~IsMultiple(arg.num, Scale(ty))

\* C7 -- the built FXP type has delta = 2^(IWL-WL), minimum = -2^(WL-1)*delta
\* or 0 and maximum = (2^(WL-1)-1)*delta or (2^WL-1)*delta, whatever Delta,
\* Minimum and Maximum the schema node carries.
C7_FxpDerived ==
    (op = "parse" /\ ty.kind = "FXP") =>
        /\ ValueIs(ty.delta, 1, Scale(ty))
        /\ ValueIs(ty.minimum, MinRaw(ty), Scale(ty))
        /\ ValueIs(ty.maximum, MaxRaw(ty), Scale(ty))
        /\ ty = ParseType([schema EXCEPT !.Delta = "2.000000",
                                         !.Minimum = "-7.000000",
                                         !.Maximum = "7.000000"])

\* C8 -- Numeric(signed, n) codec: unpack masks the blob to n bits and reads
\* a set bit n-1 of a signed type as -((masked XOR (2^n-1)) + 1); pack
\* contributes exactly the low n bits of the value (v mod 2^n) above which
\* the accumulated bits stay as they were.
C8_NumericCodec ==
    /\ (op = "unpack" /\ ty.kind = "Numeric") =>
          LET masked == arg % Pow2(ty.size_in_bits)
          IN  ret = IF ty.signed /\ masked >= Pow2(ty.size_in_bits - 1)
                    THEN -((Pow2(ty.size_in_bits) - 1 - masked) + 1)
                    ELSE masked
    /\ (op = "pack" /\ ty.kind = "Numeric") =>
          /\ exc = NoExc
          /\ ret = acc * Pow2(ty.size_in_bits) + (arg % Pow2(ty.size_in_bits))

\* a negative value has been packed into a signed Numeric below
\* accumulated bits
C8_Witness ==
    op = "pack" /\ ty.kind = "Numeric" /\ ty.signed /\ arg < 0 /\ acc = 5

RECURSIVE AllZero(_, _)
AllZero(t, v) ==
    CASE t.kind = "String"  -> v = ""
      [] t.kind = "Bool"    -> v = FALSE
      [] t.kind = "Numeric" -> v = 0
      [] t.kind = "FXP"     -> v = (IF t.overflow_enabled THEN Pair(FALSE, Zero)
                                    ELSE Num(Zero))
      [] t.kind = "Cluster" ->
            /\ Len(v) = Len(t.children)
            /\ \A i \in 1..Len(t.children) :
                  v[i][1] = t.children[i].name /\ AllZero(t.children[i], v[i][2])
      [] t.kind = "Array"   ->
            /\ Len(v) = t.size
            /\ \A i \in 1..t.size : AllZero(t.subtype, v[i])

\* C9 -- Zero blob round-trip: unpacking blob 0 of a composite type yields
\* a structure of the type's shape whose every leaf is zero, and packing
\* that structure yields blob 0.
C9_ZeroBlob ==
    IsComposite(ty) =>
        /\ (op = "unpack" /\ arg = 0) => AllZero(ty, ret)
        /\ (op = "repack" /\ orig = 0) => (exc = NoExc /\ ret = 0)

RECURSIVE HasString(_)
HasString(t) ==
    CASE t.kind = "String"  -> TRUE
      [] t.kind = "Cluster" -> \E i \in 1..Len(t.children) : HasString(t.children[i])
      [] t.kind = "Array"   -> HasString(t.subtype)
      [] OTHER              -> FALSE

\* C10 -- Blob round-trip: for a type tree of Bool, Numeric, Fxp, Cluster and
\* Array nodes and a blob b below 2^size_in_bits,
\* pack_data(unpack_data(b), 0) equals b and emits no coercion warning.
C10_BlobRoundTrip ==
    (/\ op = "repack" /\ ~HasString(ty)
     /\ (SizeInBits(ty) >= 31 \/ orig < Pow2(SizeInBits(ty)))) =>
        /\ exc = NoExc
        /\ ret = orig
        /\ warns = << >>

(***************************************************************************)
(* Building: which schemas _parse_type rejects, and with which exception.  *)
(***************************************************************************)
\* tags no branch of _parse_type and no DataType member recognises
UnsupportedKinds ==
    {"CFXP", "CDB", "Path", "U128"}

\* tags that name a DataType member and are not a letter followed by digits
MalformedNumbers ==
    {"XU8", "Bool", "Sgl"}

ResolvedName(x) ==
    IF x.Name = Absent THEN "" ELSE x.Name

DuplicateChildren(x) ==
    \E i, j \in 1..Len(x.TypeList) :
        i < j /\ ResolvedName(x.TypeList[i]) = ResolvedName(x.TypeList[j])

RECURSIVE HasUnsupported(_)
HasUnsupported(x) ==
    CASE x.tag = "Cluster" ->
            \E i \in 1..Len(x.TypeList) : HasUnsupported(x.TypeList[i])
      [] x.tag = "Array"   -> HasUnsupported(x.Type[1])
      [] OTHER             -> x.tag \in UnsupportedKinds

RECURSIVE HasDuplicate(_)
HasDuplicate(x) ==
    CASE x.tag = "Cluster" ->
            \/ DuplicateChildren(x)
            \/ \E i \in 1..Len(x.TypeList) : HasDuplicate(x.TypeList[i])
      [] x.tag = "Array"   -> HasDuplicate(x.Type[1])
      [] OTHER             -> FALSE

RECURSIVE HasMalformed(_)
HasMalformed(x) ==
    CASE x.tag = "Cluster" ->
            \E i \in 1..Len(x.TypeList) : HasMalformed(x.TypeList[i])
      [] x.tag = "Array"   -> HasMalformed(x.Type[1])
      [] OTHER             -> x.tag \in MalformedNumbers

RECURSIVE HasSignless(_)
HasSignless(x) ==
    CASE x.tag = "Cluster" ->
            \E i \in 1..Len(x.TypeList) : HasSignless(x.TypeList[i])
      [] x.tag = "Array"   -> HasSignless(x.Type[1])
      [] x.tag = "FXP"     -> x.Signed = Absent
      [] OTHER             -> FALSE

\* C13 -- An FXP node without a Signed element never builds: the build of
\* the node, and of every tree holding it, raises and returns no type.
C13_FxpNeedsSigned ==
    (op # "init" /\ HasSignless(schema)) =>
        /\ IsError(ty)
        /\ exc # NoExc
        /\ schema.tag = "FXP" => exc = "UnsupportedTypeError"

C13_Witness ==
    /\ op = "parse"
    /\ schema = XFxp("f", Absent, 2, 1, Absent, "0.000000", "0.000000", "0.000000")
    /\ IsError(ty)

\* a leaf tag it takes _Numeric to build
NumericTag(x) ==
    x.tag \notin {"Boolean", "Cluster", "Array", "FXP", "SGL", "DBL",
                  "String", "CFXP"}

\* the tags made of I or U and a width of the DataType enumeration, with or
\* without the Enum marker
RecognizedNumbers ==
    {"U8", "I8", "U16", "I16", "U32", "I32", "U64", "I64", "EnumU8", "EnumU16"}

\* C14 -- A leaf whose tag is no other kind's and, the Enum marker removed,
\* is not I or U followed by a recognized width fails to build with
\* UnsupportedTypeError and with no other exception.
C14_UnrecognizedLeaf ==
    (op # "init" /\ NumericTag(schema) /\ schema.tag \notin RecognizedNumbers) =>
        (IsError(ty) /\ exc = "UnsupportedTypeError")

\* C15 -- Packing a bare number on an overflow-enabled FXP: the overflow
\* flag defaults to False, so bit word_length of the result is clear, and a
\* warning is emitted.
C15_DefaultedFlagWarns ==
    (/\ op = "pack" /\ acc = 0 /\ exc = NoExc
     /\ ty.kind = "FXP" /\ ty.overflow_enabled /\ arg.kind = "num") =>
        /\ BitAnd(ShiftRight(ret, ty.word_length), 1) = 0
        /\ warns # << >>

\* the FXP of one bit and integer word length one, without overflow flag
OneBit(t, signed) ==
    /\ t.kind = "FXP" /\ t.signed = signed /\ ~t.overflow_enabled
    /\ t.word_length = 1 /\ t.integer_word_length = 1

\* C16 as stated -- on the signed one-bit FXP, 5 clamps to 0 with a coercion
\* warning and Decimal 1 round-trips exactly.
C16_OneBitExample ==
    OneBit(ty, TRUE) =>
        /\ (op = "pack" /\ acc = 0 /\ arg = Num(DecFromInt(5))) =>
               (exc = NoExc /\ ret = 0 /\ HasWarning(Coerced))
        /\ (op = "reunpack" /\ orig = Num(One)) => ret = Num(One)

\* C16 -- On the signed FXP with WL = 1, IWL = 1 (minimum -1, maximum 0,
\* delta 1) packing 5 clamps to 0 with a coercion warning, and so does
\* packing Decimal 1, which reads back as 0; -1 and 0 round-trip exactly
\* and silently.  On the unsigned FXP of the same geometry (minimum 0,
\* maximum 1) Decimal 1 round-trips exactly.
C16_OneBitClamp ==
    /\ OneBit(ty, TRUE) =>
        /\ ty.minimum = DecFromInt(-1) /\ ty.maximum = Zero /\ ty.delta = One
        /\ (op = "pack" /\ acc = 0 /\ arg \in {Num(DecFromInt(5)), Num(One)}) =>
               (exc = NoExc /\ ret = 0 /\ HasWarning(Coerced))
        /\ (op = "reunpack" /\ orig = Num(One)) => ret = Num(Zero)
        /\ (op = "reunpack" /\ orig \in {Num(DecFromInt(-1)), Num(Zero)}) =>
               (ret = orig /\ warns = << >>)
    /\ OneBit(ty, FALSE) =>
        /\ ty.minimum = Zero /\ ty.maximum = One /\ ty.delta = One
        /\ (op = "reunpack" /\ orig = Num(One)) =>
               (ret = Num(One) /\ warns = << >>)

C16_Witness ==
    /\ op = "reunpack" /\ OneBit(ty, TRUE)
    /\ orig = Num(One) /\ arg = 0 /\ ret = Num(Zero)
    /\ HasWarning(Coerced)

(***************************************************************************)
(* Register framing.                                                       *)
(***************************************************************************)
RECURSIVE Flatten(_)
Flatten(words) ==
    IF words = << >> THEN << >> ELSE words[1] \o Flatten(Tail(words))

IsWord(w) ==
    Len(w) = WordBits /\ \A i \in 1..WordBits : w[i] \in {0, 1}

\* n words are the fewest that hold size bits
FewestWords(n, size) ==
    n * WordBits >= size /\ (n - 1) * WordBits < size

Transferred ==
    reg.op \in {"written", "read"}

\* C17 as stated -- a packed value of any size is written left-justified.
C17_LeftJustified ==
    Transferred =>
        /\ FewestWords(Len(reg.array), reg.size_in_bits)
        /\ Flatten(reg.array) =
               reg.data \o Zeros(WordBits * Len(reg.array) - reg.size_in_bits)

\* C17 -- Register framing: a packed value of size_in_bits bits is written
\* as exactly ceil(size_in_bits / 32) U32 words, most significant word
\* first.  A value of more than 32 bits is left-justified, the unused bits
\* being zeros at the low end of the last word; a value of 1 to 32 bits is
\* written right-justified in its one word, the unused bits being zeros at
\* the high end; a value of no bits is written as no word.  Reading the
\* words back gives the packed value.
C17_RegisterFraming ==
    Transferred =>
        /\ FewestWords(Len(reg.array), reg.size_in_bits)
        /\ \A i \in 1..Len(reg.array) : IsWord(reg.array[i])
        /\ Len(reg.array) > 1 =>
               Flatten(reg.array) =
                   reg.data \o Zeros(WordBits * Len(reg.array) - reg.size_in_bits)
        /\ Len(reg.array) = 1 =>
               reg.array[1] = Zeros(WordBits - reg.size_in_bits) \o reg.data
        /\ reg.op = "read" => StripLeading(reg.value) = StripLeading(reg.data)

C17_Witness ==
    /\ reg.op = "read" /\ reg.size_in_bits = 54
    /\ reg.data = [i \in 1..54 |-> 1]
    /\ reg.array = << [i \in 1..32 |-> 1], [i \in 1..22 |-> 1] \o Zeros(10) >>
    /\ reg.value = reg.data

\* C18 -- FXP pack is total and bounded: on every FXP type, pack_data(v, 0)
\* of a number, with a Boolean overflow flag or (where the type has one)
\* without, raises nothing and returns an integer in 0 .. 2^size_in_bits - 1.
C18_FxpPackTotal ==
    (/\ op = "pack" /\ acc = 0
     /\ ty.kind = "FXP" /\ WellFormedFxpInput(ty, arg)) =>
        /\ exc = NoExc
        /\ ret >= 0
        /\ ret < Pow2(SizeInBits(ty))

(***************************************************************************)
(* String members.                                                         *)
(***************************************************************************)
RECURSIVE StripType(_)
RECURSIVE StripChildren(_, _)
RECURSIVE StripValue(_, _)
RECURSIVE StripItems(_, _, _)

\* the members from member i on without the String members
StripChildren(children, i) ==
    IF i > Len(children) THEN << >>
    ELSE IF children[i].kind = "String" THEN StripChildren(children, i + 1)
    ELSE << StripType(children[i]) >> \o StripChildren(children, i + 1)

\* the type t with the String members of its clusters removed
StripType(t) ==
    CASE t.kind = "Cluster" -> [t EXCEPT !.children = StripChildren(t.children, 1)]
      [] t.kind = "Array"   -> [t EXCEPT !.subtype = StripType(t.subtype)]
      [] OTHER              -> t

StripItems(children, v, i) ==
    IF i > Len(children) THEN << >>
    ELSE IF children[i].kind = "String" THEN StripItems(children, v, i + 1)
    ELSE << << v[i][1], StripValue(children[i], v[i][2]) >> >>
             \o StripItems(children, v, i + 1)

\* the value v of type t without the items of String members
StripValue(t, v) ==
    CASE t.kind = "Cluster" -> StripItems(t.children, v, 1)
      [] t.kind = "Array"   -> [i \in 1..Len(v) |-> StripValue(t.subtype, v[i])]
      [] OTHER              -> v

RECURSIVE StringsEmpty(_, _)
StringsEmpty(t, v) ==
    CASE t.kind = "String"  -> v = ""
      [] t.kind = "Cluster" ->
            \A i \in 1..Len(t.children) : StringsEmpty(t.children[i], v[i][2])
      [] t.kind = "Array"   -> \A i \in 1..Len(v) : StringsEmpty(t.subtype, v[i])
      [] OTHER              -> TRUE

\* the last pack_data call left what the result r describes
SamePacked(r) ==
    /\ exc = r.exc
    /\ warns = r.warns
    /\ r.exc = NoExc => ret = r.blob

\* C20 -- A String unpacks to the empty string and adds no bit on pack; a
\* cluster with String members among the others (also inside a nested
\* cluster) unpacks every other member to the value, and packs to the blob,
\* of the same cluster with the String members removed.
C20_StringTransparent ==
    /\ (op = "unpack" /\ ty.kind = "String") => ret = ""
    /\ (op = "pack" /\ ty.kind = "String") => (exc = NoExc /\ ret = acc)
    /\ (op = "unpack" /\ ty.kind = "Cluster" /\ HasString(ty)) =>
           /\ StringsEmpty(ty, ret)
           /\ StripValue(ty, ret) = UnpackData(StripType(ty), arg)
    /\ (op = "pack" /\ ty.kind = "Cluster" /\ HasString(ty)) =>
           SamePacked(PackData(StripType(ty), StripValue(ty, arg), acc))

C20_Witness ==
    /\ op = "unpack" /\ arg = 5
    /\ schema = XCluster("c", << XLeaf("String", "S"), XLeaf("U8", "A"),
                                 XLeaf("String", "T"), XLeaf("Boolean", "B"),
                                 XLeaf("String", "U") >>)
    /\ ret = << << "S", "" >>, << "A", 2 >>, << "T", "" >>, << "B", TRUE >>,
                << "U", "" >> >>

(***************************************************************************)
(* Concurrent calls.                                                       *)
(***************************************************************************)
\* frame f ended as pack_data with result r ends when it runs alone
PackedAlone(f, r) ==
    /\ f.exc = r.exc
    /\ r.exc = NoExc => f.out = r.blob
    /\ f.issued = r.warns
    /\ f.shown = Shown(r.warns, filter, {})

\* C19 -- pack_data and unpack_data modify neither the type tree nor any
\* state shared between calls: however the calls of several threads on one
\* tree interleave, the tree stays as built, the module's warning registry
\* stays as it was, and every call returns the result and reports the
\* warnings of the same call running alone.
C19_CallsIndependent ==
    (calls # << >>) =>
        /\ ty = ParseType(schema)
        /\ registry = {}
        /\ \A t \in Threads :
               calls[t].pc = "done" =>
                   IF calls[t].kind = "pack"
                   THEN PackedAlone(calls[t], PackData(ty, calls[t].input, 0))
                   ELSE /\ calls[t].out = UnpackData(ty, calls[t].input)
                        /\ calls[t].exc = NoExc
                        /\ calls[t].shown = << >>

(***************************************************************************)
(* Status checking (src/nifpga/status.py).  Every function of the driver   *)
(* library is wrapped by check_status: the wrapper counts the arguments,   *)
(* calls the function and hands the status it returned to                  *)
(* _raise_or_warn_if_nonzero_status.  A status instance is the record of   *)
(* its class (base, name) and of the code its constructor stored.          *)
(***************************************************************************)
error_codes ==
    <<
       << -50400, "FifoTimeout" >>, << -50405, "TransferAborted" >>,
       << -52000, "MemoryFull" >>, << -52003, "SoftwareFault" >>,
       << -52005, "InvalidParameter" >>, << -52006, "ResourceNotFound" >>,
       << -52007, "OperationTimedOut" >>, << -52008, "OSFault" >>,
       << -52010, "ResourceNotInitialized" >>, << -52012, "EndOfData" >>,
       << -52013, "ObjectNameCollision" >>, << -61003, "FpgaAlreadyRunning" >>,
       << -61018, "DownloadError" >>, << -61024, "DeviceTypeMismatch" >>,
       << -61046, "CommunicationTimeout" >>, << -61060, "IrqTimeout" >>,
       << -61070, "CorruptBitfile" >>, << -61072, "BadDepth" >>,
       << -61073, "BadReadWriteCount" >>, << -61083, "ClockLostLock" >>,
       << -61141, "FpgaBusy" >>, << -61200, "FpgaBusyFpgaInterfaceCApi" >>,
       << -61201, "FpgaBusyScanInterface" >>, << -61202, "FpgaBusyFpgaInterface" >>,
       << -61203, "FpgaBusyInteractive" >>, << -61204, "FpgaBusyEmulation" >>,
       << -61211, "ResetCalledWithImplicitEnableRemoval" >>, << -61212, "AbortCalledWithImplicitEnableRemoval" >>,
       << -61213, "CloseAndResetCalledWithImplicitEnableRemoval" >>, << -61214, "ImplicitEnableRemovalButNotYetRun" >>,
       << -61215, "RunAfterStoppedCalledWithImplicitEnableRemoval" >>, << -61216, "GatedClockHandshakingViolation" >>,
       << -61217, "RegionsOutstandingForSession" >>, << -61219, "ElementsNotPermissibleToBeAcquired" >>,
       << -61252, "FpgaBusyConfiguration" >>, << -61253, "CloseCalledWithResetNotSupported" >>,
       << -61254, "RunAfterStoppedNotSupported" >>, << -61499, "InternalError" >>,
       << -63003, "TotalDmaFifoDepthExceeded" >>, << -63033, "AccessDenied" >>,
       << -63038, "HostVersionMismatch" >>, << -63040, "RpcConnectionError" >>,
       << -63041, "RpcServerError" >>, << -63042, "NetworkFault" >>,
       << -63043, "RpcSessionError" >>, << -63044, "RpcServerMissing" >>,
       << -63045, "FeatureNotSupportedOverRpc" >>, << -63046, "UsingRemoteSessionForLocalTarget" >>,
       << -63050, "TriggerReserved" >>, << -63051, "TriggerNotReserved" >>,
       << -63080, "BufferInvalidSize" >>, << -63081, "BufferNotAllocated" >>,
       << -63082, "FifoReserved" >>, << -63083, "FifoElementsCurrentlyAcquired" >>,
       << -63084, "MisalignedAccess" >>, << -63085, "ControlOrIndicatorTooLarge" >>,
       << -63086, "OperationNotSupportedWhileStarted" >>, << -63087, "TypesDoNotMatch" >>,
       << -63088, "OutOfFifoRegions" >>, << -63101, "BitfileReadError" >>,
       << -63106, "SignatureMismatch" >>, << -63107, "IncompatibleBitfile" >>,
       << -63150, "HardwareFault" >>, << -63170, "PowerShutdown" >>,
       << -63171, "ThermalShutdown" >>, << -63180, "InvalidAliasName" >>,
       << -63181, "AliasNotFound" >>, << -63182, "InvalidDeviceAccess" >>,
       << -63183, "InvalidPort" >>, << -63184, "ChildDeviceNotInserted" >>,
       << -63192, "InvalidResourceName" >>, << -63193, "FeatureNotSupported" >>,
       << -63194, "VersionMismatch" >>, << -63195, "InvalidSession" >>,
       << -63196, "InvalidAttribute" >>, << -63198, "OutOfHandles" >>
    >>

NoStatus == [base |-> "none"]

\* the class add_classes stores at the key of an error code, instantiated
ErrorClass(code, code_string) ==
    [base |-> "ErrorStatus", name |-> code_string, code |-> code]

\* a warning class whose constructor stores the table's code as it stands
WarningClassSameSign(code, code_string) ==
    [base |-> "WarningStatus", name |-> code_string, code |-> code]

\* the class add_classes stores at the negated key, instantiated
WarningClass(code, code_string) ==
    [base |-> "WarningStatus", name |-> code_string, code |-> -code]

UnknownError(code) ==
    [base |-> "ErrorStatus", name |-> "Unknown code", code |-> code]

UnknownWarning(code) ==
    [base |-> "WarningStatus", name |-> "Unknown code", code |-> code]

\* the rows of error_codes that add_classes files under key: the last one
\* wins, as in a dictionary
RowsAt(key) ==
    { i \in 1..Len(error_codes) :
        error_codes[i][1] = key \/ -error_codes[i][1] = key }

Last(S) == CHOOSE i \in S : \A j \in S : j <= i

codes_to_exception_classes ==
    [key \in { error_codes[i][1] : i \in 1..Len(error_codes) }
             \cup { -error_codes[i][1] : i \in 1..Len(error_codes) } |->
        IF -error_codes[Last(RowsAt(key))][1] = key
        THEN WarningClass(error_codes[Last(RowsAt(key))][1],
                          error_codes[Last(RowsAt(key))][2])
        ELSE ErrorClass(error_codes[Last(RowsAt(key))][1],
                        error_codes[Last(RowsAt(key))][2])]

get_code(s) == s.code

\* _raise_or_warn_if_nonzero_status(status, ...): what it raises and the
\* warnings it hands to warnings.warn
RaiseOrWarnIfNonzeroStatus(status) ==
    IF status = 0 THEN [exc |-> NoStatus, warned |-> << >>]
    ELSE IF status \in DOMAIN codes_to_exception_classes
    THEN IF status < 0
         THEN [exc |-> codes_to_exception_classes[status], warned |-> << >>]
         ELSE [exc |-> NoStatus,
               warned |-> << codes_to_exception_classes[status] >>]
    ELSE IF status < 0
         THEN [exc |-> UnknownError(status), warned |-> << >>]
         ELSE [exc |-> NoStatus, warned |-> << UnknownWarning(status) >>]

\* statuses outside the table, of both signs
UnknownStatuses == { -1, 1, -7, 7, -61000, 61000, -70000, 70000 }

Statuses == DOMAIN codes_to_exception_classes \cup UnknownStatuses \cup {0}

\* a library function: whether it declares argtypes and how many, and the
\* status it is about to return
Functions ==
    [has_argtypes : BOOLEAN, argtypes : {1, 2}, status : Statuses]

StatusInit ==
    /\ schema = None
    /\ ty = [kind |-> "None"]
    /\ op = "init"
    /\ NoCall
    /\ reg = NoRegister
    /\ NoThreads
    /\ bitfile = [op |-> "none"]
    /\ fifo = [op |-> "none"]
    /\ irq = [op |-> "none"]
    /\ region = [op |-> "none"]
    /\ session = [op |-> "none"]
    /\ wide = [op |-> "none"]
    /\ \E f \in Functions : \E n \in {1, 2} :
          driver = [op |-> "wrapped", function |-> f, args |-> n,
                    called |-> FALSE, exc |-> NoStatus, warned |-> << >>]

\* what the wrapper leaves once the function returned: r is what the status
\* helper raised or warned
Checked(r) ==
    driver' = [driver EXCEPT !.op = "done", !.called = TRUE,
                             !.exc = r.exc, !.warned = r.warned]

\* check_status(...)(function)(*args): the wrapper `internal`
CheckStatus ==
    /\ driver.op = "wrapped"
    /\ IF driver.function.has_argtypes
          /\ driver.args # driver.function.argtypes
       THEN driver' = [driver EXCEPT !.op = "done",
                                     !.exc = [base |-> "TypeError"]]
       ELSE Checked(RaiseOrWarnIfNonzeroStatus(driver.function.status))
    /\ UNCHANGED << codec, reg, threads >>
    /\ UNCHANGED << bitfile, fifo, irq, region, session, wide >>

StatusNext == CheckStatus

StatusSpec == StatusInit /\ [][StatusNext]_vars

XRegister(name, datatype) ==
    [Name |-> name, Datatype |-> datatype]

XChannel(name, datatype, has_transfer_size, transfer_size) ==
    [name |-> name, DataType |-> datatype,
     has_transfer_size |-> has_transfer_size,
     TransferSizeBytes |-> transfer_size]

\* Register.__init__: the register, or the exception _parse_type raised
NewBitfileRegister(reg_xml) ==
    IF IsError(ParseType(reg_xml.Datatype)) THEN ParseType(reg_xml.Datatype)
    ELSE [kind |-> "Register", name |-> reg_xml.Name,
          type |-> ParseType(reg_xml.Datatype)]

IsNotPowerOf2(value) ==
    BitAnd(value, value - 1) # 0

\* ctypes.sizeof(datatype._return_ctype())
SizeOfReturnCtype(t) ==
    IF t.kind = "Bool" THEN 1
    ELSE IF t.kind = "Numeric" \/ t.kind = "Float" THEN t.size_in_bits \div 8
    ELSE 4

\* Fifo.__init__ after _parse_type returned t
NewFifoOfType(channel_xml, t) ==
    IF IsError(t) THEN t
    ELSE IF channel_xml.has_transfer_size
    THEN IF IsNotPowerOf2(channel_xml.TransferSizeBytes)
         THEN Raise("UnsupportedTypeError")
         ELSE [kind |-> "Fifo", name |-> channel_xml.name, type |-> t,
               transfer_size_bytes |-> channel_xml.TransferSizeBytes]
    ELSE [kind |-> "Fifo", name |-> channel_xml.name, type |-> t,
          transfer_size_bytes |-> IF t.kind = "FXP" THEN 8
                                  ELSE SizeOfReturnCtype(t)]

NewFifo(channel_xml) ==
    NewFifoOfType(channel_xml, ParseType(channel_xml.DataType))

\* the two exceptions the loops of Bitfile.__init__ catch
Caught(e) ==
    e = "UnsupportedTypeError" \/ e = "ClusterMustContainUniqueNames"

Skipping(what, name, e) ==
    [text |-> what, name |-> name, exc |-> e]

\* d[name] = entry on a dictionary kept as the sequence of its items
SetItem(d, entry) ==
    IF \E i \in 1..Len(d) : d[i].name = entry.name
    THEN [i \in 1..Len(d) |-> IF d[i].name = entry.name THEN entry ELSE d[i]]
    ELSE Append(d, entry)

Keys(d) == { d[i].name : i \in 1..Len(d) }

\* one pass of the register loop: b is the bitfile so far, r what
\* Register(reg_xml) gave
RegisterStep(b, reg_xml, r) ==
    IF IsError(r)
    THEN IF Caught(r.exc)
         THEN [b EXCEPT !.warnings =
                   Append(b.warnings,
                          Skipping("Skipping Register", reg_xml.Name, r.exc))]
         ELSE [b EXCEPT !.exc = r.exc]
    ELSE IF r.name \in Keys(b.registers)
    THEN [b EXCEPT !.exc = "AssertionError"]
    ELSE [b EXCEPT !.registers = SetItem(b.registers, r)]

\* one pass of the FIFO loop: the handlers name the local `fifo`, which is
\* bound by the last Fifo(...) that returned, and by none before that
FifoStep(b, f) ==
    IF IsError(f)
    THEN IF Caught(f.exc)
         THEN IF b.fifo = "unbound"
              THEN [b EXCEPT !.exc = "UnboundLocalError"]
              ELSE [b EXCEPT !.warnings =
                        Append(b.warnings,
                               Skipping("Skipping FIFO", b.fifo, f.exc))]
         ELSE [b EXCEPT !.exc = f.exc]
    ELSE [b EXCEPT !.fifo = f.name, !.fifos = SetItem(b.fifos, f)]

RECURSIVE RegisterLoop(_, _, _)
RegisterLoop(b, xmls, i) ==
    IF i > Len(xmls) \/ b.exc # NoExc THEN b
    ELSE RegisterLoop(RegisterStep(b, xmls[i], NewBitfileRegister(xmls[i])),
                      xmls, i + 1)

RECURSIVE FifoLoop(_, _, _)
FifoLoop(b, xmls, i) ==
    IF i > Len(xmls) \/ b.exc # NoExc THEN b
    ELSE FifoLoop(FifoStep(b, NewFifo(xmls[i])), xmls, i + 1)

\* the most entries of either list of a bitfile
MaxRegisters == 2
MaxChannels == 3

\* data types of the entries: one that builds, one unsupported, one cluster
\* with two members of one name
EntryTypes ==
    {XLeaf("U8", "x"), XLeaf("CFXP", "x"),
     XCluster("c", << XLeaf("U16", "N"), XLeaf("I8", "N") >>)}

RegisterXmls ==
    { XRegister(n, d) : n \in {"r1", "r2"}, d \in EntryTypes }

ChannelNames == << "f1", "f2", "f3" >>

ChannelXmls(i) ==
    { XChannel(ChannelNames[i], d, FALSE, 0) : d \in EntryTypes }
        \cup { XChannel(ChannelNames[i], XSubType("U8"), TRUE, 3),
               XChannel(ChannelNames[i], XSubType("U8"), TRUE, 4) }

RegisterLists ==
    UNION { [1..n -> RegisterXmls] : n \in 0..MaxRegisters }

ChannelLists ==
    UNION { { l \in [1..n -> UNION { ChannelXmls(i) : i \in 1..n }] :
                \A i \in 1..n : l[i] \in ChannelXmls(i) } :
            n \in 0..MaxChannels }

BitfileInit ==
    /\ schema = None
    /\ ty = [kind |-> "None"]
    /\ op = "init"
    /\ NoCall
    /\ reg = NoRegister
    /\ NoThreads
    /\ driver = [op |-> "none"]
    /\ fifo = [op |-> "none"]
    /\ irq = [op |-> "none"]
    /\ region = [op |-> "none"]
    /\ session = [op |-> "none"]
    /\ wide = [op |-> "none"]
    /\ \E rs \in RegisterLists : \E cs \in ChannelLists :
          bitfile = [op |-> "xml", RegisterList |-> rs,
                     DmaChannelAllocationList |-> cs,
                     registers |-> << >>, fifos |-> << >>,
                     fifo |-> "unbound", warnings |-> << >>, exc |-> NoExc]

\* Bitfile(contents, parse_contents=True)
BitfileLoad ==
    /\ bitfile.op = "xml"
    /\ bitfile' =
          [FifoLoop(RegisterLoop(bitfile, bitfile.RegisterList, 1),
                    bitfile.DmaChannelAllocationList, 1)
             EXCEPT !.op = "loaded"]
    /\ UNCHANGED << codec, reg, threads >>
    /\ UNCHANGED << driver, fifo, irq, region, session, wide >>

BitfileNext == BitfileLoad

BitfileSpec == BitfileInit /\ [][BitfileNext]_vars

\* the entries of a list that fail to build with one of the two type errors
Failing(built) ==
    { i \in 1..Len(built) : IsError(built[i]) /\ Caught(built[i].exc) }

UniqueNames(xmls) ==
    \A i, j \in 1..Len(xmls) : xmls[i].Name = xmls[j].Name => i = j

\* C23 -- after a bitfile whose register names are distinct is loaded, the
\* load has raised nothing; every register and every FIFO whose type fails
\* to build with UnsupportedTypeError or ClusterMustContainUniqueNames is
\* absent from the dictionaries and a warning names it; every other register
\* and FIFO is in its dictionary, whatever the position of the failing
\* entries.
C23_SkippedWithWarning ==
    (bitfile.op = "loaded" /\ UniqueNames(bitfile.RegisterList)) =>
        LET rs == bitfile.RegisterList
            cs == bitfile.DmaChannelAllocationList
            rb == [i \in 1..Len(rs) |-> NewBitfileRegister(rs[i])]
            cb == [i \in 1..Len(cs) |-> NewFifo(cs[i])]
        IN  /\ bitfile.exc = NoExc
            /\ Keys(bitfile.registers) =
                  { rs[i].Name : i \in (1..Len(rs)) \ Failing(rb) }
            /\ Keys(bitfile.fifos) =
                  { cs[i].name : i \in (1..Len(cs)) \ Failing(cb) }
            /\ \A i \in Failing(rb) :
                  \E k \in 1..Len(bitfile.warnings) :
                     /\ bitfile.warnings[k].text = "Skipping Register"
                     /\ bitfile.warnings[k].name = rs[i].Name
            /\ \A i \in Failing(cb) :
                  \E k \in 1..Len(bitfile.warnings) :
                     /\ bitfile.warnings[k].text = "Skipping FIFO"
                     /\ bitfile.warnings[k].name = cs[i].name

(***************************************************************************)
(* FIFO element framing and the element accessor (src/nifpga/session.py).  *)
(* A FIFO of composite elements moves bytes: each element owns a slot of   *)
(* transfer_size_bytes bytes of a c_uint8 buffer.  Bytes are sequences of  *)
(* ByteBits bits, packed values are bit sequences as for registers.  The   *)
(* buffer of an accessor is a ctypes array (read) or a pointer into the    *)
(* driver's memory (acquired regions); the model keeps its elements as the *)
(* sequence buffer[1..], so Python's buffer[i] is buffer[i + 1].           *)
(***************************************************************************)
ByteBits == 8

\* data & 0xFF, stored in a c_uint8
BitsLowByte(bits) ==
    IF Len(bits) >= ByteBits
    THEN SubSeq(bits, Len(bits) - ByteBits + 1, Len(bits))
    ELSE Zeros(ByteBits - Len(bits)) \o bits

\* (combinedData << 8) + byte
BitsPushByte(combinedData, byte) ==
    combinedData \o byte

\* the number a bit sequence stands for: its bits without leading zeros
RECURSIVE BitsValue(_)
BitsValue(bits) ==
    IF bits = << >> \/ bits[1] = 1 THEN bits
    ELSE BitsValue(Tail(bits))

\* the while loop of _combine_array_of_u8_into_one_value
RECURSIVE CombineU8Words(_, _, _, _)
CombineU8Words(data, index, element_end, combinedData) ==
    IF index >= element_end THEN combinedData
    ELSE CombineU8Words(data, index + 4, element_end,
            BitsPushByte(BitsPushByte(BitsPushByte(BitsPushByte(combinedData,
                data[index + 3 + 1]), data[index + 2 + 1]),
                data[index + 1 + 1]), data[index + 1]))

\* what _combine_array_of_u8_into_one_value has before its final shift
CombinedU8(data, element_index, transfer_size_bytes) ==
    IF transfer_size_bytes >= 4
    THEN CombineU8Words(data, element_index,
                        element_index + transfer_size_bytes, << >>)
    ELSE IF transfer_size_bytes = 2
    THEN BitsPushByte(data[element_index + 1 + 1], data[element_index + 1])
    ELSE data[element_index + 1]

CombineArrayOfU8IntoOneValue(data, element_index, transfer_size_bytes, size_in_bits) ==
    IF transfer_size_bytes > 4
    THEN BitsShiftRight(CombinedU8(data, element_index, transfer_size_bytes),
                        ByteBits * transfer_size_bytes - size_in_bits)
    ELSE CombinedU8(data, element_index, transfer_size_bytes)

\* the four stores of one pass of the loop of _convert_to_u8_array
StoreWord(u8_array, local_index, data) ==
    [u8_array EXCEPT
        ![local_index + 1] = BitsLowByte(data),
        ![local_index + 1 + 1] = BitsLowByte(BitsShiftRight(data, 8)),
        ![local_index + 2 + 1] = BitsLowByte(BitsShiftRight(data, 16)),
        ![local_index + 3 + 1] = BitsLowByte(BitsShiftRight(data, 24))]

\* the loop of _convert_to_u8_array over reversed(range(0, n, 4)), from
\* index down
RECURSIVE StoreWords(_, _, _, _)
StoreWords(u8_array, element_index, index, data) ==
    IF index < 0 THEN u8_array
    ELSE StoreWords(StoreWord(u8_array, element_index + index, data),
                    element_index, index - 4, BitsShiftRight(data, 32))

\* _convert_to_u8_array once the data is shifted
StoreU8(u8_array, element_index, data, transfer_size_bytes) ==
    IF transfer_size_bytes = 1
    THEN [u8_array EXCEPT ![element_index + 1] = BitsLowByte(data)]
    ELSE IF transfer_size_bytes = 2
    THEN [u8_array EXCEPT
             ![element_index + 1] = BitsLowByte(data),
             ![element_index + 1 + 1] = BitsLowByte(BitsShiftRight(data, 8))]
    ELSE StoreWords(u8_array, element_index,
                    4 * ((transfer_size_bytes - 1) \div 4), data)

\* _convert_to_u8_array that shifts whatever the transfer size
ConvertToU8ArrayJustified(u8_array, element_index, data, transfer_size_bytes, size_in_bits) ==
    StoreU8(u8_array, element_index,
            BitsShiftLeft(data, ByteBits * transfer_size_bytes - size_in_bits),
            transfer_size_bytes)

ConvertToU8Array(u8_array, element_index, data, transfer_size_bytes, size_in_bits) ==
    StoreU8(u8_array, element_index,
            IF transfer_size_bytes > 4
            THEN BitsShiftLeft(data,
                               ByteBits * transfer_size_bytes - size_in_bits)
            ELSE data,
            transfer_size_bytes)

\* the most elements of a buffer, and the largest transfer size as a power
\* of two
MaxElements == 2
MaxTransferLog == 3

TransferSizes == { Pow2(k) : k \in 0..MaxTransferLog }

\* sizes of composite types that fit a slot of n bytes
ElementSizes(n) ==
    { s \in 1..(ByteBits * n) :
        s \in {1, 5, ByteBits * n - 9, ByteBits * n - 1, ByteBits * n} }

\* what the memory holds before a write and past the end of a region
Fills == { Zeros(ByteBits), [i \in 1..ByteBits |-> 1] }

\* _FIFODataAccessor.__init__ over a buffer of number_of_elements slots that
\* all hold the byte fill; `stored` and `loaded` are the last __setitem__
\* and __getitem__ calls made on it
NoItem ==
    [index |-> 0, value |-> << >>, exc |-> NoExc, outside |-> FALSE]

NewAccessor(datatype, size_in_bits, bytes_per_element, number_of_elements, pointer, fill) ==
    [op |-> "new", datatype |-> datatype, size_in_bits |-> size_in_bits,
     bytes_per_element |-> bytes_per_element,
     number_of_elements |-> number_of_elements,
     pointer |-> pointer,
     buffer |-> [i \in 1..(bytes_per_element * number_of_elements) |-> fill],
     before |-> << >>, stored |-> NoItem, loaded |-> NoItem]

Accessors ==
    UNION { { NewAccessor("Cluster", s, n, k, p, f) :
                s \in ElementSizes(n), k \in 1..MaxElements,
                p \in BOOLEAN, f \in Fills } : n \in TransferSizes }
      \cup { NewAccessor(d, ByteBits, 1, k, p, f) :
               d \in {"U8", "Bool"}, k \in 1..MaxElements,
               p \in BOOLEAN, f \in Fills }

\* a register to write and read back, or the accessor of a FIFO buffer
FramingInit ==
    /\ schema = None
    /\ ty = [kind |-> "None"]
    /\ op = "init"
    /\ NoCall
    /\ NoThreads
    /\ driver = [op |-> "none"]
    /\ bitfile = [op |-> "none"]
    /\ irq = [op |-> "none"]
    /\ region = [op |-> "none"]
    /\ session = [op |-> "none"]
    /\ wide = [op |-> "none"]
    /\ \/ /\ fifo \in Accessors
          /\ reg = NoRegister
       \/ /\ fifo = [op |-> "none"]
          /\ \E n \in RegSizes : \E d \in RegData(n) : reg = NewRegister(n, d)

\* the indexes a caller may pass: each slot, the one past the last, and
\* one further on each side
Indexes(a) == (-1)..(a.number_of_elements + 1)

\* the values a caller may store: packed values of the type's size
ElementValues(a) == RegData(a.size_in_bits)

\* whether the slot of index lies in the buffer
InBuffer(a, index) ==
    index >= 0 /\ (index + 1) * a.bytes_per_element <= Len(a.buffer)

\* the buffer after accessor[index] = value gets past the index check
Stored(a, index, value) ==
    IF a.datatype = "Cluster"
    THEN ConvertToU8Array(a.buffer, index * a.bytes_per_element, value,
                          a.bytes_per_element, a.size_in_bits)
    ELSE [a.buffer EXCEPT ![index + 1] = BitsLowByte(value)]

\* what accessor[index] returns once past the index check, a bool as the
\* one bit it stands for
Loaded(a, index) ==
    IF a.datatype = "Cluster"
    THEN CombineArrayOfU8IntoOneValue(a.buffer, index * a.bytes_per_element,
                                      a.bytes_per_element, a.size_in_bits)
    ELSE IF a.datatype = "Bool"
    THEN IF a.buffer[index + 1] = Zeros(ByteBits) THEN << 0 >> ELSE << 1 >>
    ELSE a.buffer[index + 1]

\* the test both __getitem__ and __setitem__ make on the index
IndexRejected(a, index) ==
    index < 0 \/ index > a.number_of_elements

\* _FIFODataAccessor.__setitem__(index, value), from the packed value on.
\* A store past the end of a ctypes array raises IndexError; through a
\* pointer it lands in the memory after the region.
SetItemCall(index, value) ==
    /\ fifo.op = "new"
    /\ fifo' =
          IF IndexRejected(fifo, index)
          THEN [fifo EXCEPT !.op = "set", !.before = fifo.buffer,
                            !.stored = [index |-> index, value |-> value,
                                        exc |-> "KeyError", outside |-> FALSE]]
          ELSE IF ~InBuffer(fifo, index)
          THEN [fifo EXCEPT !.op = "set", !.before = fifo.buffer,
                            !.stored = [index |-> index, value |-> value,
                                        exc |-> IF fifo.pointer THEN NoExc
                                                ELSE "IndexError",
                                        outside |-> fifo.pointer]]
          ELSE [fifo EXCEPT !.op = "set", !.before = fifo.buffer,
                            !.buffer = Stored(fifo, index, value),
                            !.stored = [index |-> index, value |-> value,
                                        exc |-> NoExc, outside |-> FALSE]]
    /\ UNCHANGED << codec, reg, threads >>
    /\ UNCHANGED << driver, bitfile, irq, region, session, wide >>

\* _FIFODataAccessor.__getitem__(index), up to the packed value.  A load
\* past the end of a ctypes array raises IndexError; through a pointer it
\* returns whatever the memory after the region holds.
GetItemCall(index) ==
    /\ fifo.op = "set"
    /\ \/ /\ IndexRejected(fifo, index)
          /\ fifo' = [fifo EXCEPT !.op = "got",
                         !.loaded = [index |-> index, value |-> << >>,
                                     exc |-> "KeyError", outside |-> FALSE]]
       \/ /\ ~IndexRejected(fifo, index)
          /\ ~InBuffer(fifo, index)
          /\ ~fifo.pointer
          /\ fifo' = [fifo EXCEPT !.op = "got",
                         !.loaded = [index |-> index, value |-> << >>,
                                     exc |-> "IndexError", outside |-> FALSE]]
       \/ /\ ~IndexRejected(fifo, index)
          /\ ~InBuffer(fifo, index)
          /\ fifo.pointer
          /\ \E f \in Fills :
                fifo' = [fifo EXCEPT !.op = "got",
                            !.loaded =
                               [index |-> index, exc |-> NoExc,
                                outside |-> TRUE,
                                value |-> Loaded(
                                   [fifo EXCEPT !.buffer =
                                       fifo.buffer \o
                                       [i \in 1..fifo.bytes_per_element |-> f]],
                                   index)]]
       \/ /\ ~IndexRejected(fifo, index)
          /\ InBuffer(fifo, index)
          /\ fifo' = [fifo EXCEPT !.op = "got",
                         !.loaded = [index |-> index, exc |-> NoExc,
                                     outside |-> FALSE,
                                     value |-> Loaded(fifo, index)]]
    /\ UNCHANGED << codec, reg, threads >>
    /\ UNCHANGED << driver, bitfile, irq, region, session, wide >>

FramingNext ==
    \/ RegWrite
    \/ RegRead
    \/ /\ fifo.op = "new"
       /\ \E index \in Indexes(fifo) : \E value \in ElementValues(fifo) :
             SetItemCall(index, value)
    \/ /\ fifo.op = "set"
       /\ \E index \in Indexes(fifo) : GetItemCall(index)

FramingSpec == FramingInit /\ [][FramingNext]_vars

\* C24 -- every __setitem__ and every __getitem__ of a FIFO data accessor
\* whose index lies outside 0..number_of_elements-1, the index
\* number_of_elements included, raises KeyError.
C24_IndexChecked ==
    /\ (fifo.op \in {"set", "got"}
          /\ (fifo.stored.index < 0
                \/ fifo.stored.index >= fifo.number_of_elements))
       => fifo.stored.exc = "KeyError"
    /\ (fifo.op = "got"
          /\ (fifo.loaded.index < 0
                \/ fifo.loaded.index >= fifo.number_of_elements))
       => fifo.loaded.exc = "KeyError"

\* the bytes of the slot of element index
Slot(a, index) ==
    (index * a.bytes_per_element + 1)..((index + 1) * a.bytes_per_element)

\* C25 -- transport framing round trip: a register of any size reads back
\* the packed value written to it; a composite FIFO element stored in a
\* slot of a power-of-two number of bytes that holds its size is loaded
\* back from that slot as the same value, and storing it changes no byte
\* outside the slot.
C25_FramingRoundTrip ==
    /\ reg.op = "read" => BitsValue(reg.value) = BitsValue(reg.data)
    /\ (fifo.op \in {"set", "got"} /\ fifo.datatype = "Cluster"
          /\ InBuffer(fifo, fifo.stored.index))
       => /\ Len(fifo.buffer) = Len(fifo.before)
          /\ \A i \in 1..Len(fifo.buffer) :
                i \notin Slot(fifo, fifo.stored.index)
                   => fifo.buffer[i] = fifo.before[i]
    /\ (fifo.op = "got" /\ fifo.datatype = "Cluster"
          /\ InBuffer(fifo, fifo.stored.index)
          /\ fifo.loaded.index = fifo.stored.index)
       => /\ fifo.loaded.exc = NoExc
          /\ BitsValue(fifo.loaded.value) = BitsValue(fifo.stored.value)

\* a 55-bit element of an 8-byte slot, the second of two, has been stored
\* and loaded back
C25_Witness ==
    /\ fifo.op = "got"
    /\ fifo.datatype = "Cluster"
    /\ fifo.bytes_per_element = 8
    /\ fifo.size_in_bits = 55
    /\ fifo.stored.index = 1
    /\ fifo.loaded.index = 1
    /\ fifo.stored.value = [i \in 1..55 |-> i % 2]
    /\ fifo.loaded.value = fifo.stored.value
    /\ fifo.buffer[9] = << 1, 0, 1, 0, 1, 0, 1, 0 >>

IrqStatuses == { 0, 63195, -63195, -7 }

\* the context handles the driver may hand out
IrqContexts == { 1, 2 }

\* the irqs arguments: a list of ordinals or a single ordinal
IrqArguments ==
    { [list |-> TRUE, ordinals |-> << >>],
      [list |-> TRUE, ordinals |-> << 0 >>],
      [list |-> TRUE, ordinals |-> << 0, 6, 31 >>],
      [list |-> TRUE, ordinals |-> << 3, 32 >>],
      [list |-> FALSE, ordinals |-> << 5 >>],
      [list |-> FALSE, ordinals |-> << -1 >>] }

IrqTimeouts == { 0, 1000 }

\* _irq_ordinals_to_bitmask: the bits set, or the failed assertion
IrqOrdinalsToBitmask(ordinals) ==
    IF \E i \in 1..Len(ordinals) : ~(0 <= ordinals[i] /\ ordinals[i] <= 31)
    THEN Raise("AssertionError")
    ELSE [kind |-> "Bitmask", bits |-> { ordinals[i] : i \in 1..Len(ordinals) }]

\* what a checked driver call raises
StatusRaised(status) ==
    RaiseOrWarnIfNonzeroStatus(status).exc

\* a wait_on_irqs whose unreserve follows the wait outside any finally
AfterWaitUnprotected(raised) ==
    IF raised = NoStatus THEN "unreserve" ELSE "done"

\* where wait_on_irqs goes once WaitOnIrqs returned or raised: the finally
\* block
AfterWait(raised) ==
    "unreserve"

IrqInit ==
    /\ schema = None
    /\ ty = [kind |-> "None"]
    /\ op = "init"
    /\ NoCall
    /\ reg = NoRegister
    /\ NoThreads
    /\ driver = [op |-> "none"]
    /\ bitfile = [op |-> "none"]
    /\ fifo = [op |-> "none"]
    /\ region = [op |-> "none"]
    /\ session = [op |-> "none"]
    /\ wide = [op |-> "none"]
    /\ \E a \in IrqArguments : \E t \in IrqTimeouts :
          irq = [op |-> "call", irqs |-> a, timeout_ms |-> t,
                 irqs_bitmask |-> {}, context |-> 0, log |-> << >>,
                 irqs_asserted |-> {}, timed_out |-> FALSE,
                 pending |-> NoStatus, exc |-> NoStatus, returned |-> FALSE]

IrqUnchanged ==
    /\ UNCHANGED << codec, reg, threads >>
    /\ UNCHANGED << driver, bitfile, fifo, region, session, wide >>

\* wait_on_irqs(irqs, timeout_ms) up to its first driver call
WaitOnIrqsEnter ==
    /\ irq.op = "call"
    /\ irq' = IF IsError(IrqOrdinalsToBitmask(irq.irqs.ordinals))
              THEN [irq EXCEPT !.op = "done",
                               !.exc = [base |-> "AssertionError"]]
              ELSE [irq EXCEPT !.op = "reserve",
                               !.irqs_bitmask =
                                   IrqOrdinalsToBitmask(irq.irqs.ordinals).bits]
    /\ IrqUnchanged

\* NiFpga_ReserveIrqContext(session, context) returning status and, on
\* success, the context c
ReserveIrqContext(status, c) ==
    /\ irq.op = "reserve"
    /\ irq' = IF StatusRaised(status) # NoStatus
              THEN [irq EXCEPT !.op = "done",
                               !.log = Append(irq.log,
                                              [fn |-> "ReserveIrqContext",
                                               context |-> 0,
                                               status |-> status]),
                               !.exc = StatusRaised(status)]
              ELSE [irq EXCEPT !.op = "wait",
                               !.context = c,
                               !.log = Append(irq.log,
                                              [fn |-> "ReserveIrqContext",
                                               context |-> c,
                                               status |-> status])]
    /\ IrqUnchanged

\* NiFpga_WaitOnIrqs(session, context, irqs, timeout, asserted, timed_out)
\* returning status, the asserted IRQs and whether it timed out
WaitOnIrqs(status, asserted, timed_out) ==
    /\ irq.op = "wait"
    /\ irq' = [irq EXCEPT !.op = AfterWait(StatusRaised(status)),
                          !.log = Append(irq.log,
                                         [fn |-> "WaitOnIrqs",
                                          context |-> irq.context,
                                          status |-> status]),
                          !.irqs_asserted = asserted,
                          !.timed_out = timed_out,
                          !.pending = StatusRaised(status),
                          !.exc = IF AfterWait(StatusRaised(status)) = "done"
                                  THEN StatusRaised(status) ELSE NoStatus]
    /\ IrqUnchanged

\* NiFpga_UnreserveIrqContext(session, context) in the finally block, and
\* the return or the raise that ends the call
UnreserveIrqContext(status) ==
    /\ irq.op = "unreserve"
    /\ irq' = [irq EXCEPT !.op = "done",
                          !.log = Append(irq.log,
                                         [fn |-> "UnreserveIrqContext",
                                          context |-> irq.context,
                                          status |-> status]),
                          !.pending = NoStatus,
                          !.exc = IF StatusRaised(status) # NoStatus
                                  THEN StatusRaised(status)
                                  ELSE irq.pending,
                          !.returned = StatusRaised(status) = NoStatus
                                          /\ irq.pending = NoStatus]
    /\ IrqUnchanged

IrqNext ==
    \/ WaitOnIrqsEnter
    \/ \E status \in IrqStatuses : \E c \in IrqContexts :
          ReserveIrqContext(status, c)
    \/ /\ irq.op = "wait"
       /\ \E status \in IrqStatuses : \E asserted \in SUBSET irq.irqs_bitmask :
             \E timed_out \in BOOLEAN : WaitOnIrqs(status, asserted, timed_out)
    \/ \E status \in IrqStatuses : UnreserveIrqContext(status)

IrqSpec == IrqInit /\ [][IrqNext]_vars

\* the calling thread runs on: each driver call returns (WaitOnIrqs at the
\* latest when its timeout expires)
IrqFairSpec == IrqSpec /\ WF_vars(IrqNext)

\* the driver calls of irq.log named fn
Logged(fn) ==
    { i \in 1..Len(irq.log) : irq.log[i].fn = fn }

\* the context the driver reserved for this call, if any
Reserved ==
    irq.op # "none" /\ irq.context # 0

Unreserved ==
    \E i \in Logged("UnreserveIrqContext") : irq.log[i].context = irq.context

\* C27 -- wait_on_irqs waits only with a context it has reserved before,
\* unreserves nothing but that context, and after every reservation it
\* goes on to unreserve that same context, also when the wait raises an
\* error status; the call does not end with the context still reserved.
C27_AlwaysUnreserved ==
    /\ [](\A i \in Logged("WaitOnIrqs") :
             /\ irq.log[i].context = irq.context
             /\ \E j \in Logged("ReserveIrqContext") :
                   j < i /\ irq.log[j].context = irq.context)
    /\ [](\A i \in Logged("UnreserveIrqContext") :
             /\ irq.log[i].context = irq.context
             /\ \E j \in Logged("WaitOnIrqs") : j < i)
    /\ []((Reserved /\ irq.op = "done") => Unreserved)
    /\ (Reserved ~> Unreserved)

\* the wait raised InvalidSessionError, the context was unreserved all the
\* same and the error left the call
C27_Witness ==
    /\ irq.op = "done"
    /\ Reserved
    /\ Len(irq.log) = 3
    /\ irq.log[2].fn = "WaitOnIrqs"
    /\ irq.log[2].status = -63195
    /\ irq.log[3].fn = "UnreserveIrqContext"
    /\ irq.log[3].context = irq.context
    /\ irq.log[3].status = 0
    /\ irq.exc = ErrorClass(-63195, "InvalidSession")

(***************************************************************************)
(* _FIFODataRegion (src/nifpga/session.py): the region an acquire call     *)
(* returns, released through release() or by leaving a with block.         *)
(* region.history is the sequence of calls made on the region, each with   *)
(* whether it invoked the FIFO's release_region, the status the driver     *)
(* returned and what the call handed back or raised.                       *)
(***************************************************************************)
\* the most calls made on one region
MaxRegionCalls == 4

\* the statuses NiFpga_ReleaseFifoRegion may return
RegionStatuses == { 0, 63195, -63195, -7 }

\* a release() that calls the FIFO whatever the flag
NotYetReleasedIgnored(r) ==
    TRUE

\* the test of release(): `if not self._released`
NotYetReleased(r) ==
    ~r.released

\* _FIFODataRegion.__init__(accessor, region, fifo)
NewRegion ==
    [op |-> "acquired", accessor |-> "accessor", released |-> FALSE,
     history |-> << >>]

\* release() on region r when the driver would return status
Release(r, call, status) ==
    IF NotYetReleased(r)
    THEN [r EXCEPT !.accessor = None,
                   !.released = StatusRaised(status) = NoStatus,
                   !.history = Append(r.history,
                                      [call |-> call, invoked |-> TRUE,
                                       status |-> status, result |-> None,
                                       exc |-> StatusRaised(status)])]
    ELSE [r EXCEPT !.history = Append(r.history,
                                      [call |-> call, invoked |-> FALSE,
                                       status |-> 0, result |-> None,
                                       exc |-> NoStatus])]

RegionInit ==
    /\ schema = None
    /\ ty = [kind |-> "None"]
    /\ op = "init"
    /\ NoCall
    /\ reg = NoRegister
    /\ NoThreads
    /\ driver = [op |-> "none"]
    /\ bitfile = [op |-> "none"]
    /\ fifo = [op |-> "none"]
    /\ irq = [op |-> "none"]
    /\ session = [op |-> "none"]
    /\ wide = [op |-> "none"]
    /\ region = NewRegion

RegionUnchanged ==
    /\ UNCHANGED << codec, reg, threads >>
    /\ UNCHANGED << driver, bitfile, fifo, irq, session, wide >>

\* region.release()
RegionRelease(status) ==
    /\ Len(region.history) < MaxRegionCalls
    /\ region' = Release(region, "release", status)
    /\ RegionUnchanged

\* region.__exit__(exception_type, exception_val, trace)
RegionExit(status) ==
    /\ Len(region.history) < MaxRegionCalls
    /\ region' = Release(region, "__exit__", status)
    /\ RegionUnchanged

\* region.__enter__()
RegionEnter ==
    /\ Len(region.history) < MaxRegionCalls
    /\ region' = [region EXCEPT !.history =
                     Append(region.history,
                            [call |-> "__enter__", invoked |-> FALSE,
                             status |-> 0, result |-> region.accessor,
                             exc |-> NoStatus])]
    /\ RegionUnchanged

\* region.accessor: the property returns itself and recurses until the
\* interpreter stops it
RegionAccessor ==
    /\ Len(region.history) < MaxRegionCalls
    /\ region' = [region EXCEPT !.history =
                     Append(region.history,
                            [call |-> "accessor", invoked |-> FALSE,
                             status |-> 0, result |-> None,
                             exc |-> [base |-> "RecursionError"]])]
    /\ RegionUnchanged

RegionNext ==
    \/ \E status \in RegionStatuses : RegionRelease(status)
    \/ \E status \in RegionStatuses : RegionExit(status)
    \/ RegionEnter
    \/ RegionAccessor

RegionSpec == RegionInit /\ [][RegionNext]_vars

\* the calls of the history that release: release() and __exit__
Releases ==
    { i \in 1..Len(region.history) :
        region.history[i].call \in {"release", "__exit__"} }

\* C28 -- over any sequence of release() calls and with-block exits on a
\* region, the first of them invokes the FIFO's release_region, and no call
\* invokes it after one whose release_region succeeded; once the region is
\* released, no later call hands out its accessor.
C28_ReleasedOnce ==
    [](/\ \A i \in Releases :
             (\A j \in Releases : i <= j) => region.history[i].invoked
       /\ \A i, j \in Releases :
             (i < j /\ region.history[i].invoked
                    /\ region.history[i].exc = NoStatus)
                => ~region.history[j].invoked
       /\ \A i \in Releases : \A j \in 1..Len(region.history) :
             (i < j /\ region.history[i].invoked
                    /\ region.history[i].exc = NoStatus)
                => region.history[j].result # "accessor")

\* a release failed, the next one invoked release_region again and
\* succeeded, and the one after that left the FIFO alone
C28_Witness ==
    /\ Len(region.history) = 4
    /\ region.history[1].call = "release"
    /\ region.history[1].exc # NoStatus
    /\ region.history[2].call = "__exit__"
    /\ region.history[2].invoked
    /\ region.history[2].exc = NoStatus
    /\ region.history[3].call = "release"
    /\ ~region.history[3].invoked
    /\ region.history[4].call = "__enter__"
    /\ region.history[4].result = None
    /\ region.released

(***************************************************************************)
(* Session as a context manager (src/nifpga/session.py): the with body     *)
(* ends, normally or with an exception, and __exit__ closes the session.   *)
(***************************************************************************)
\* how the body of a with block may end: normally (None) or with an
\* exception of the named type
BodyExceptions ==
    { None, "ValueError", "KeyboardInterrupt", "FifoTimeoutError",
      "InvalidSessionError" }

\* isinstance(e, InvalidSessionError)
IsInvalidSessionError(e) ==
    e = codes_to_exception_classes[-63195]

\* an __exit__ that re-raises every error status of close
ExitRaisesAll(closed, exception_type) ==
    closed

\* what __exit__ raises when close raised `closed` (NoStatus when close
\* returned): the except clauses of __exit__
ExitRaises(closed, exception_type) ==
    IF closed = NoStatus THEN NoStatus
    ELSE IF IsInvalidSessionError(closed) THEN NoStatus
    ELSE IF closed.base = "ErrorStatus"
    THEN IF exception_type = None THEN closed ELSE NoStatus
    ELSE closed

SessionInit ==
    /\ schema = None
    /\ ty = [kind |-> "None"]
    /\ op = "init"
    /\ NoCall
    /\ reg = NoRegister
    /\ NoThreads
    /\ driver = [op |-> "none"]
    /\ bitfile = [op |-> "none"]
    /\ fifo = [op |-> "none"]
    /\ irq = [op |-> "none"]
    /\ region = [op |-> "none"]
    /\ wide = [op |-> "none"]
    /\ \E r \in BOOLEAN :
          session = [op |-> "entered", reset_if_last_session_on_exit |-> r,
                     exception_type |-> None, close_calls |-> << >>,
                     closed |-> NoStatus, raised |-> NoStatus]

SessionUnchanged ==
    /\ UNCHANGED << codec, reg, threads >>
    /\ UNCHANGED << driver, bitfile, fifo, irq, region, wide >>

\* the body of the with block ends with exception_type
SessionBody(exception_type) ==
    /\ session.op = "entered"
    /\ session' = [session EXCEPT !.op = "leaving",
                                  !.exception_type = exception_type]
    /\ SessionUnchanged

\* Session.__exit__(exception_type, exception_val, trace), with close and
\* its NiFpga_Close call returning status
SessionExit(status) ==
    /\ session.op = "leaving"
    /\ session' =
          [session EXCEPT
              !.op = "exited",
              !.close_calls =
                  Append(session.close_calls,
                         [no_reset_if_last_session |->
                              ~session.reset_if_last_session_on_exit,
                          status |-> status]),
              !.closed = StatusRaised(status),
              !.raised = ExitRaises(StatusRaised(status),
                                    session.exception_type)]
    /\ SessionUnchanged

SessionNext ==
    \/ \E e \in BodyExceptions : SessionBody(e)
    \/ \E status \in Statuses : SessionExit(status)

SessionSpec == SessionInit /\ [][SessionNext]_vars

\* C29 -- once __exit__ has run: close was attempted, once; an
\* InvalidSessionError of close never leaves __exit__; any other
\* ErrorStatus of close leaves __exit__ exactly when the with body ended
\* without an exception; and when close raised nothing, __exit__ raises
\* nothing.
C29_ExitCloses ==
    session.op = "exited" =>
        /\ Len(session.close_calls) = 1
        /\ session.close_calls[1].status < 0 =>
              /\ session.closed.base = "ErrorStatus"
              /\ IF session.close_calls[1].status = -63195
                 THEN session.raised = NoStatus
                 ELSE IF session.exception_type = None
                 THEN session.raised = session.closed
                 ELSE session.raised = NoStatus
        /\ session.close_calls[1].status >= 0 => session.raised = NoStatus

\* the body raised, close failed with FifoTimeout, and __exit__ kept quiet
C29_Witness ==
    /\ session.op = "exited"
    /\ session.exception_type = "ValueError"
    /\ session.closed = ErrorClass(-50400, "FifoTimeout")
    /\ session.raised = NoStatus

(***************************************************************************)
(* Python integers of any width.  The cluster of the package's own test is *)
(* 443 bits wide and an FXP word may take 65 bits, so a blob and a field   *)
(* are kept as [neg, bits]: a sign and the bits of the magnitude, most     *)
(* significant first, without leading zeros (zero has no bits).  A mask    *)
(* 2^n - 1 is given by n, a single-bit mask 2^k by k.                      *)
(***************************************************************************)
\* the bits without their leading zeros
Trim(bits) ==
    IF \A i \in 1..Len(bits) : bits[i] = 0 THEN << >>
    ELSE SubSeq(bits, CHOOSE i \in 1..Len(bits) :
                          bits[i] = 1 /\ \A j \in 1..(i - 1) : bits[j] = 0,
                Len(bits))

\* the bits padded with leading zeros to n places
Pad(bits, n) ==
    IF Len(bits) >= n THEN bits ELSE Zeros(n - Len(bits)) \o bits

IntZero == [neg |-> FALSE, bits |-> << >>]

\* the integer of a sign and a magnitude
IntOf(neg, bits) ==
    IF Trim(bits) = << >> THEN IntZero ELSE [neg |-> neg, bits |-> Trim(bits)]

\* a natural number the model's own integers hold
IntNat(n) ==
    IntOf(FALSE, [i \in 1..31 |-> (n \div Pow2(31 - i)) % 2])

\* 2^k
IntPow2(k) ==
    IntOf(FALSE, << 1 >> \o Zeros(k))

\* a + b + carry_in of two magnitudes of one length, one place longer: the
\* carry into a place is generated at a lower place and propagated by the
\* places between
MagSum(a, b, carry_in) ==
    LET n == Len(a)
        Carry(i) ==
            \/ \E j \in (i + 1)..n :
                  /\ a[j] = 1 /\ b[j] = 1
                  /\ \A k \in (i + 1)..(j - 1) : a[k] = 1 \/ b[k] = 1
            \/ /\ carry_in = 1
               /\ \A k \in (i + 1)..n : a[k] = 1 \/ b[k] = 1
    IN  [i \in 1..(n + 1) |->
           IF i = 1 THEN IF Carry(0) THEN 1 ELSE 0
           ELSE (a[i - 1] + b[i - 1] + IF Carry(i - 1) THEN 1 ELSE 0) % 2]

\* |a| + |b|
MagAdd(a, b) ==
    LET n == IF Len(a) > Len(b) THEN Len(a) ELSE Len(b)
    IN  Trim(MagSum(Pad(a, n), Pad(b, n), 0))

\* |a| < |b| for magnitudes without leading zeros
MagLess(a, b) ==
    IF Len(a) # Len(b) THEN Len(a) < Len(b)
    ELSE \E i \in 1..Len(a) :
            /\ a[i] < b[i]
            /\ \A j \in 1..(i - 1) : a[j] = b[j]

\* |a| - |b| for |a| >= |b|: a + ~b + 1 without the carry out
MagSub(a, b) ==
    LET n == Len(a)
    IN  Trim(Tail(MagSum(a, [i \in 1..n |-> 1 - Pad(b, n)[i]], 1)))

\* a + b
IntAdd(a, b) ==
    IF a.neg = b.neg THEN IntOf(a.neg, MagAdd(a.bits, b.bits))
    ELSE IF MagLess(a.bits, b.bits) THEN IntOf(b.neg, MagSub(b.bits, a.bits))
    ELSE IntOf(a.neg, MagSub(a.bits, b.bits))

\* -a
IntNeg(a) ==
    IntOf(~a.neg, a.bits)

\* a < b
IntLess(a, b) ==
    IF a.neg # b.neg THEN a.neg
    ELSE IF a.neg THEN MagLess(b.bits, a.bits)
    ELSE MagLess(a.bits, b.bits)

\* a & (2^n - 1): a modulo 2^n, which for a negative a is 2^n minus the
\* low bits of its magnitude
IntLow(a, n) ==
    LET low == Trim(SubSeq(Pad(a.bits, n), Len(Pad(a.bits, n)) - n + 1,
                           Len(Pad(a.bits, n))))
    IN  IF ~a.neg \/ low = << >> THEN IntOf(FALSE, low)
        ELSE IntOf(FALSE, MagSub(<< 1 >> \o Zeros(n), low))

\* a & 2^k > 0
IntBit(a, k) ==
    Len(IntLow(a, k + 1).bits) = k + 1

\* a << n
IntShiftLeft(a, n) ==
    IntOf(a.neg, a.bits \o Zeros(n))

\* a >> n, which rounds toward minus infinity
IntShiftRight(a, n) ==
    IF ~a.neg THEN IntOf(FALSE, BitsShiftRight(a.bits, n))
    ELSE IntOf(TRUE,
               MagAdd(BitsShiftRight(MagSub(a.bits, << 1 >>), n), << 1 >>))

\* a ^ (2^n - 1): the low n bits flipped, a + (2^n - 1) - 2 * (a mod 2^n)
IntFlipLow(a, n) ==
    IntAdd(IntAdd(a, IntOf(FALSE, [i \in 1..n |-> 1])),
           IntNeg(IntShiftLeft(IntLow(a, n), 1)))

\* a | b: for a negative result -(~a & ~b) - 1, where ~x is the magnitude
\* less one of a negative x and the flipped bits of any other
IntOr(a, b) ==
    LET n == IF Len(a.bits) > Len(b.bits) THEN Len(a.bits) ELSE Len(b.bits)
        x == IF a.neg THEN Pad(MagSub(a.bits, << 1 >>), n) ELSE Pad(a.bits, n)
        y == IF b.neg THEN Pad(MagSub(b.bits, << 1 >>), n) ELSE Pad(b.bits, n)
    IN  IF ~a.neg /\ ~b.neg
        THEN IntOf(FALSE, [i \in 1..n |-> IF x[i] = 1 \/ y[i] = 1 THEN 1 ELSE 0])
        ELSE IntOf(TRUE,
                   MagAdd([i \in 1..n |->
                             IF (x[i] = 1) = a.neg /\ (y[i] = 1) = b.neg
                             THEN 1 ELSE 0],
                          << 1 >>))

\* the natural number of up to sixteen bits
RECURSIVE BitsToNat(_)
BitsToNat(bits) ==
    IF bits = << >> THEN 0
    ELSE 2 * BitsToNat(SubSeq(bits, 1, Len(bits) - 1)) + bits[Len(bits)]

\* the n bits of a natural number below 2^n
NatBits(r, n) ==
    [i \in 1..n |-> (r \div Pow2(n - i)) % 2]

\* the decimal digits of a magnitude, sixteen bits at a time
RECURSIVE DigitsFromBits(_)
DigitsFromBits(bits) ==
    IF Len(bits) <= 16 THEN NatDigits(BitsToNat(bits))
    ELSE MulAdd(DigitsFromBits(SubSeq(bits, 1, Len(bits) - 16)), Pow2(16),
                BitsToNat(SubSeq(bits, Len(bits) - 15, Len(bits))))

\* Decimal(a) for a Python int a: exact
DecFromWide(a) ==
    Canon(a.neg, DigitsFromBits(a.bits), 0)

\* long division of the digits ds by m from digit i on: quotient digits q
\* so far, remainder r
RECURSIVE DivDigits(_, _, _, _, _)
DivDigits(ds, m, i, q, r) ==
    IF i > Len(ds) THEN [q |-> StripLeading(q), r |-> r]
    ELSE DivDigits(ds, m, i + 1, Append(q, (r * 10 + ds[i]) \div m),
                   (r * 10 + ds[i]) % m)

\* the bits of a magnitude given by its decimal digits, sixteen at a time
RECURSIVE BitsFromDigits(_)
RECURSIVE BitsFromDivided(_)
BitsFromDivided(qr) ==
    BitsFromDigits(qr.q) \o NatBits(qr.r, 16)

BitsFromDigits(ds) ==
    IF ds = << >> THEN << >>
    ELSE BitsFromDivided(DivDigits(ds, Pow2(16), 1, << >>, 0))

\* int(d): truncation toward zero
DecToWide(d) ==
    IntOf(d.neg,
          BitsFromDigits(
              IF d.exp >= 0 THEN d.coef \o [i \in 1..d.exp |-> 0]
              ELSE IF Len(d.coef) <= -d.exp THEN << >>
              ELSE SubSeq(d.coef, 1, Len(d.coef) + d.exp)))

(***************************************************************************)
(* The type classes on fields of any width.  The masks a constructor       *)
(* computes are left as the bit counts they are made of: data_mask is      *)
(* size_in_bits ones, word_length_mask word_length ones and                *)
(* signed_bit_mask the bit below the top of the word.                      *)
(***************************************************************************)
\* data * Decimal(2^(iwl - wl)): the exact product, rounded by the context
DecMulDelta(data, wl, iwl) ==
    IF data = IntZero \/ iwl - wl < MinFloatExp THEN Zero
    ELSE DecRound(DecScale2(DecFromWide(data), iwl - wl))

NewNumericSized(name, tn, matches, size) ==
    IF matches = {} THEN Raise("UnsupportedTypeError")
    ELSE IF size = -1 THEN Raise("ValueError")
    ELSE [kind |-> "Numeric", name |-> BaseName(name),
          datatype |-> DataType[CHOOSE i \in matches : \A j \in matches : i <= j],
          signed |-> LowerChar(tn[1]) = "i",
          size_in_bits |-> size]

NewNumericNamed(name, tn) ==
    NewNumericSized(name, tn,
                    {i \in 1..Len(DataType) : Contains(Lower(tn), Lower(Chars(DataType[i])))},
                    ParseInt(SubSeq(tn, 2, Len(tn))))

NewNumericWide(name, type_name) ==
    NewNumericNamed(name, Remove(Chars(type_name), Chars("Enum")))

CalculateMinimumWide(wl, iwl, signed) ==
    IF signed THEN DecMulInt(-1, DecMulDelta(IntPow2(wl - 1), wl, iwl))
    ELSE Zero

CalculateMaximumWide(wl, iwl, signed) ==
    DecMulDelta(IntAdd(IntPow2(IF signed THEN wl - 1 ELSE wl), IntNeg(IntNat(1))),
                wl, iwl)

NewFXPBuilt(name, signed, overflow, wl, iwl) ==
    [kind |-> "FXP", name |-> BaseName(name),
     signed |-> signed, overflow_enabled |-> overflow,
     word_length |-> wl, integer_word_length |-> iwl,
     delta |-> CalculateDelta(wl, iwl),
     minimum |-> CalculateMinimumWide(wl, iwl, signed),
     maximum |-> CalculateMaximumWide(wl, iwl, signed),
     size_in_bits |-> CalculateSizeInBits(wl, overflow)]

NewFXPWide(name, x) ==
    IF x.Signed = Absent THEN Raise("UnsupportedTypeError")
    ELSE NewFXPBuilt(name, LowerText(x.Signed) = "true",
                     IF x.IncludeOverflowStatus # Absent
                     THEN LowerText(x.IncludeOverflowStatus) = "true" ELSE FALSE,
                     x.WordLength, x.IntegerWordLength)

RECURSIVE ParseTypeWide(_)
RECURSIVE ParseChildrenWide(_, _, _, _)

ParseChildWide(members, i, names, children, child_type) ==
    IF IsError(child_type) THEN child_type
    ELSE IF child_type.name \in names THEN Raise("ClusterMustContainUniqueNames")
    ELSE ParseChildrenWide(members, i + 1, names \cup {child_type.name},
                           Append(children, child_type))

ParseChildrenWide(members, i, names, children) ==
    IF i > Len(members) THEN [kind |-> "Children", list |-> children]
    ELSE ParseChildWide(members, i, names, children, ParseTypeWide(members[i]))

NewClusterParsed(name, parsed) ==
    IF IsError(parsed) THEN parsed
    ELSE [kind |-> "Cluster", name |-> BaseName(name),
          children |-> parsed.list, size_in_bits |-> SumSizes(parsed.list)]

NewClusterWide(name, x) ==
    NewClusterParsed(name, ParseChildrenWide(x.TypeList, 1, {}, << >>))

NewArrayOf(name, x, subtype) ==
    IF IsError(subtype) THEN subtype
    ELSE [kind |-> "Array", name |-> BaseName(name),
          subtype |-> subtype, size |-> x.Size,
          size_in_bits |-> SizeInBits(subtype) * x.Size]

NewArrayWide(name, x) ==
    NewArrayOf(name, x, ParseTypeWide(x.Type[1]))

ParseTypeNamed(x, type_name, name) ==
    IF type_name = "Boolean" THEN NewBool(name)
    ELSE IF type_name = "Cluster" THEN NewClusterWide(name, x)
    ELSE IF type_name = "FXP" THEN NewFXPWide(name, x)
    ELSE IF type_name = "Array" THEN NewArrayWide(name, x)
    ELSE IF type_name = "SGL" \/ type_name = "DBL" THEN NewFloat(name, type_name)
    ELSE IF type_name = "String" THEN NewString(name)
    ELSE IF type_name = "CFXP" THEN Raise("UnsupportedTypeError")
    ELSE NewNumericWide(name, type_name)

ParseTypeWide(x) ==
    ParseTypeNamed(x, IF x.SubType # Absent THEN x.SubType ELSE x.tag,
                   IF x.SubType # Absent THEN "" ELSE x.Name)

(***************************************************************************)
(* unpack_data on a blob of any width.  An int is [neg, bits], the other   *)
(* values are as before.                                                   *)
(***************************************************************************)
\* (data ^ mask + 1) * -1 for the mask of n ones
TwosComp(data, n) ==
    IntNeg(IntAdd(IntFlipLow(data, n), IntNat(1)))

\* _Numeric.unpack_data without the data_mask
UnpackNumericWideUnmasked(t, bits_from_fpga) ==
    IF t.signed /\ IntBit(bits_from_fpga, t.size_in_bits - 1)
    THEN TwosComp(bits_from_fpga, t.size_in_bits)
    ELSE bits_from_fpga

UnpackNumericWide(t, bits_from_fpga) ==
    UnpackNumericWideUnmasked(t, IntLow(bits_from_fpga, t.size_in_bits))

UnpackBoolWide(data) ==
    IntBit(data, 0)

IntegerTwosCompWide(t, data) ==
    IF IntBit(data, t.word_length - 1) THEN TwosComp(data, t.word_length)
    ELSE data

\* _FXP.unpack_data from the masked data on
UnpackFXPMasked(t, data) ==
    IF t.overflow_enabled
    THEN Pair(IntBit(data, t.word_length),
              DecMulDelta(IF t.signed
                          THEN IntegerTwosCompWide(t, IntLow(data, t.word_length))
                          ELSE IntLow(data, t.word_length),
                          t.word_length, t.integer_word_length))
    ELSE Num(DecMulDelta(IF t.signed THEN IntegerTwosCompWide(t, data) ELSE data,
                         t.word_length, t.integer_word_length))

UnpackFXPWide(t, bits) ==
    UnpackFXPMasked(t, IntLow(bits, t.size_in_bits))

RECURSIVE UnpackDataWide(_, _)
RECURSIVE UnpackDataRecursiveWide(_, _, _)
RECURSIVE UnpackArrayWide(_, _, _)

UnpackDataRecursiveWide(children, i, data) ==
    IF i = 0 THEN << >>
    ELSE Append(UnpackDataRecursiveWide(children, i - 1,
                                        IntShiftRight(data, SizeInBits(children[i]))),
                << children[i].name, UnpackDataWide(children[i], data) >>)

UnpackArrayWide(t, i, data) ==
    IF i >= t.size THEN << >>
    ELSE << UnpackDataWide(t.subtype, data) >>
         \o UnpackArrayWide(t, i + 1, IntShiftRight(data, SizeInBits(t.subtype)))

UnpackDataWide(t, data) ==
    CASE t.kind = "String"  -> ""
      [] t.kind = "Numeric" -> UnpackNumericWide(t, data)
      [] t.kind = "Bool"    -> UnpackBoolWide(data)
      [] t.kind = "Cluster" -> UnpackDataRecursiveWide(t.children, Len(t.children), data)
      [] t.kind = "Array"   -> Reverse(UnpackArrayWide(t, 0, data))
      [] t.kind = "FXP"     -> UnpackFXPWide(t, data)

(***************************************************************************)
(* pack_data onto an accumulator of any width                              *)
(***************************************************************************)
RaisedWide(e, emitted) ==
    [blob |-> IntZero, warns |-> emitted, exc |-> e]

\* packed_data <<= size; packed_data |= field
Shifted(packed_data, size, field) ==
    IntOr(IntShiftLeft(packed_data, size), field)

PackNumericWide(t, data_to_pack, packed_data) ==
    Returned(Shifted(packed_data, t.size_in_bits, IntLow(data_to_pack, t.size_in_bits)),
             << >>)

PackBoolWide(data_to_pack, packed_data) ==
    Returned(Shifted(packed_data, 1, IF data_to_pack THEN IntNat(1) ELSE IntZero),
             << >>)

\* _convert_value_to_fxp from the quotient on
FxpRepresentationOf(calculated_fxp, fxp_representation) ==
    [rep |-> fxp_representation,
     warns |-> IF DecFromWide(fxp_representation) # calculated_fxp
               THEN << Coerced >> ELSE << >>,
     exc |-> NoExc]

ConvertValueToFxpWide(t, data) ==
    IF t.delta = Zero
    THEN [rep |-> IntZero, warns |-> << >>,
          exc |-> IF data = Zero THEN "InvalidOperation" ELSE "DivisionByZero"]
    ELSE FxpRepresentationOf(DecDivDelta(data, t), DecToWide(DecDivDelta(data, t)))

\* the word after the two's complement and the overflow bit
FxpWordWide(t, overflow, data, rep) ==
    IF overflow
    THEN IntAdd(IF t.signed /\ DecLess(data, Zero) THEN IntegerTwosCompWide(t, rep)
                ELSE rep,
                IntPow2(t.word_length))
    ELSE IF t.signed /\ DecLess(data, Zero) THEN IntegerTwosCompWide(t, rep)
    ELSE rep

PackFXPWordWide(t, overflow, data, conv, clamped, packed_data) ==
    IF conv.exc # NoExc THEN RaisedWide(conv.exc, conv.warns)
    ELSE Returned(Shifted(packed_data, t.size_in_bits,
                          FxpWordWide(t, overflow, data, conv.rep)),
                  IF clamped THEN Append(conv.warns, Coerced) ELSE conv.warns)

PackFXPDataWide(t, overflow, data, packed_data) ==
    IF DecLess(data, t.minimum)
    THEN PackFXPWordWide(t, overflow, data, ConvertValueToFxpWide(t, t.minimum),
                         TRUE, packed_data)
    ELSE IF DecLess(t.maximum, data)
    THEN PackFXPWordWide(t, overflow, data, ConvertValueToFxpWide(t, t.maximum),
                         TRUE, packed_data)
    ELSE PackFXPWordWide(t, overflow, data, ConvertValueToFxpWide(t, data),
                         FALSE, packed_data)

PackFXPInputWide(t, input, packed_data) ==
    IF input.exc # NoExc THEN RaisedWide(input.exc, << >>)
    ELSE PackFXPDataWide(t, input.overflow, input.data, packed_data)

PackFXPWide(t, data_to_pack, packed_data) ==
    PackFXPInputWide(t, ValidateAndParseUserInput(t, data_to_pack), packed_data)

RECURSIVE PackDataWide(_, _, _)
RECURSIVE PackClusterWide(_, _, _, _, _)
RECURSIVE PackArrayWide(_, _, _, _, _)

PackClusterNextWide(children, i, data_to_pack, r, emitted) ==
    IF r.exc # NoExc THEN RaisedWide(r.exc, emitted \o r.warns)
    ELSE PackClusterWide(children, i + 1, data_to_pack, r.blob, emitted \o r.warns)

PackArrayNextWide(t, i, data_to_pack, r, emitted) ==
    IF r.exc # NoExc THEN RaisedWide(r.exc, emitted \o r.warns)
    ELSE PackArrayWide(t, i + 1, data_to_pack, r.blob, emitted \o r.warns)

PackClusterWide(children, i, data_to_pack, packed_data, emitted) ==
    IF i > Len(children) THEN Returned(packed_data, emitted)
    ELSE PackClusterNextWide(children, i, data_to_pack,
                             PackDataWide(children[i],
                                          Lookup(data_to_pack, children[i].name),
                                          packed_data),
                             emitted)

PackArrayWide(t, i, data_to_pack, packed_data, emitted) ==
    IF i >= t.size THEN Returned(packed_data, emitted)
    ELSE PackArrayNextWide(t, i, data_to_pack,
                           PackDataWide(t.subtype, data_to_pack[i + 1], packed_data),
                           emitted)

PackDataWide(t, data_to_pack, packed_data) ==
    CASE t.kind = "String"  -> Returned(packed_data, << >>)
      [] t.kind = "Numeric" -> PackNumericWide(t, data_to_pack, packed_data)
      [] t.kind = "Bool"    -> PackBoolWide(data_to_pack, packed_data)
      [] t.kind = "Cluster" -> PackClusterWide(t.children, 1, data_to_pack, packed_data, << >>)
      [] t.kind = "Array"   -> PackArrayWide(t, 0, data_to_pack, packed_data, << >>)
      [] t.kind = "FXP"     -> PackFXPWide(t, data_to_pack, packed_data)

(***************************************************************************)
(* The register of the package's cluster test: the schema of cluster_xml   *)
(* and the blobs and structures its cases use.                             *)
(***************************************************************************)
cluster_xml ==
    XCluster("input cluster",
      << XLeaf("U16", "Input Cluster U16"),
         XCluster("output cluster 2",
           << XFxp("Input Cluster FXP 4-bit Signed", "true", 4, 2, "true",
                   "0.250000", "-2.000000", "1.750000"),
              XLeaf("U8", "Input Cluster  U8"),
              XLeaf("U64", "Input Cluster U64"),
              XLeaf("I8", "Input Cluster I8") >>),
         XArray("output cluster array", 2,
           XCluster(Absent,
             << XFxp("Input Cluster FXP 64-bit Signed Overflow 2", "true", 64, 32,
                     "true", "0.000000", "-2147483648.000000", "2147483648.000000"),
                XLeaf("I16", "Input Cluster I16 2"),
                XFxp("Input Cluster FXP 32-bit Unsigned Overflow 2", "false", 32, 16,
                     "true", "0.000015", "0.000000", "65535.999985"),
                XLeaf("Boolean", "Input Cluster Bool 2") >>)),
         XLeaf("I32", "Input Cluster I32"),
         XLeaf("EnumU16", "Input Cluster EnumU8"),
         XLeaf("U32", "Input Cluster U32"),
         XArray("output fxp array", 2,
           XFxp("Input Cluster FXP 13-bit Signed 2", "true", 16, 8, "false",
                "0.003906", "-128.000000", "127.996094")) >>)

\* actual_data of test_cluster_values_set_to_1
actual_data ==
    IntOf(FALSE, <<
        1, 0, 0, 1, 0, 0, 0, 0, 0, 0, 0, 0, 0, 1, 0, 0, 0, 0, 0, 0, 0, 0, 0, 0,
        0, 0, 0, 0, 0, 0, 0, 0, 0, 0, 0, 0, 0, 0, 0, 0, 0, 0, 0, 0, 0, 0, 0, 0,
        0, 0, 0, 0, 0, 0, 0, 0, 0, 0, 0, 0, 0, 0, 0, 0, 0, 0, 0, 0, 0, 0, 0, 0,
        0, 0, 0, 0, 0, 1, 0, 0, 0, 0, 0, 0, 0, 1, 0, 0, 0, 0, 0, 0, 0, 0, 0, 0,
        0, 0, 0, 0, 0, 0, 0, 0, 0, 0, 0, 0, 0, 0, 0, 0, 0, 0, 0, 0, 0, 0, 1, 0,
        0, 0, 0, 0, 0, 0, 0, 0, 0, 0, 0, 0, 0, 0, 0, 0, 0, 0, 0, 0, 0, 0, 0, 0,
        0, 0, 0, 0, 0, 0, 0, 0, 0, 0, 0, 0, 0, 0, 0, 0, 0, 0, 0, 0, 0, 0, 1, 0,
        0, 0, 0, 0, 0, 0, 0, 0, 0, 0, 0, 0, 0, 0, 0, 1, 0, 0, 0, 0, 0, 0, 0, 0,
        0, 0, 0, 0, 0, 0, 0, 0, 1, 0, 0, 0, 0, 0, 0, 0, 0, 0, 0, 0, 0, 0, 0, 0,
        0, 0, 0, 0, 0, 0, 0, 0, 0, 0, 0, 0, 0, 0, 0, 0, 0, 1, 0, 0, 0, 0, 0, 0,
        0, 0, 0, 0, 0, 0, 0, 0, 0, 0, 0, 0, 0, 0, 0, 0, 0, 0, 0, 0, 0, 0, 0, 0,
        0, 0, 0, 0, 0, 0, 0, 0, 0, 0, 0, 0, 0, 0, 0, 0, 0, 1, 0, 0, 0, 0, 0, 0,
        0, 0, 0, 0, 0, 0, 0, 0, 0, 0, 1, 0, 0, 0, 0, 0, 0, 0, 0, 0, 0, 0, 0, 0,
        0, 0, 0, 1, 0, 0, 0, 0, 0, 0, 0, 0, 0, 0, 0, 0, 0, 0, 0, 0, 0, 0, 0, 0,
        0, 0, 0, 0, 0, 0, 0, 0, 0, 0, 0, 1, 0, 0, 0, 0, 0, 0, 0, 0, 0, 0, 0, 0,
        0, 0, 0, 1, 0, 0, 0, 0, 0, 0, 0, 0, 0, 0, 0, 0, 0, 0, 0, 0, 0, 0, 0, 0,
        0, 0, 0, 0, 0, 0, 0, 0, 0, 0, 0, 1, 0, 0, 0, 0, 0, 0, 0, 1, 0, 0, 0, 0,
        0, 0, 0, 0, 0, 0, 0, 0, 0, 0, 0, 1, 0, 0, 0, 0, 0, 0, 0, 0 >>)

\* expected_data of test_cluster_values_set_to_1
expected_data ==
    << << "Input Cluster U16", IntNat(1) >>,
       << "output cluster 2",
          << << "Input Cluster FXP 4-bit Signed", Pair(FALSE, DecFromInt(1)) >>,
             << "Input Cluster  U8", IntNat(1) >>,
             << "Input Cluster U64", IntNat(1) >>,
             << "Input Cluster I8", IntNat(1) >> >> >>,
       << "output cluster array",
          << << << "Input Cluster FXP 64-bit Signed Overflow 2",
                   Pair(FALSE, DecFromInt(1)) >>,
                << "Input Cluster I16 2", IntNat(1) >>,
                << "Input Cluster FXP 32-bit Unsigned Overflow 2",
                   Pair(FALSE, DecFromInt(1)) >>,
                << "Input Cluster Bool 2", TRUE >> >>,
             << << "Input Cluster FXP 64-bit Signed Overflow 2",
                   Pair(FALSE, DecFromInt(1)) >>,
                << "Input Cluster I16 2", IntNat(1) >>,
                << "Input Cluster FXP 32-bit Unsigned Overflow 2",
                   Pair(FALSE, DecFromInt(1)) >>,
                << "Input Cluster Bool 2", TRUE >> >> >> >>,
       << "Input Cluster I32", IntNat(1) >>,
       << "Input Cluster EnumU8", IntNat(1) >>,
       << "Input Cluster U32", IntNat(1) >>,
       << "output fxp array", << Num(DecFromInt(1)), Num(DecFromInt(1)) >> >> >>

\* the structure with the tuple (False, value) in every FXP field
RECURSIVE Paired(_, _)
Paired(t, v) ==
    CASE t.kind = "FXP"     -> Pair(IF v.kind = "pair" THEN v.overflow ELSE FALSE, v.num)
      [] t.kind = "Cluster" -> [i \in 1..Len(v) |->
                                  << v[i][1], Paired(t.children[i], v[i][2]) >>]
      [] t.kind = "Array"   -> [i \in 1..Len(v) |-> Paired(t.subtype, v[i])]
      [] OTHER              -> v

(***************************************************************************)
(* Calls on the register of the cluster test.  wide holds the type, the    *)
(* blob handed to unpack_data, the structure unpacked or handed to         *)
(* pack_data, and what pack_data returned from an accumulator of 0.        *)
(***************************************************************************)
\* the blob of the test, the blob 0 and a blob with one bit set at each
\* place of the type
WideBlobs(t) ==
    {actual_data, IntZero}
    \cup {IntPow2(k) : k \in 0..(SizeInBits(t) - 1)}

WideStructures(t) ==
    {expected_data, Paired(t, expected_data), UnpackDataWide(t, IntZero)}

WideInit ==
    /\ schema = None
    /\ ty = [kind |-> "None"]
    /\ op = "init"
    /\ NoCall
    /\ reg = NoRegister
    /\ NoThreads
    /\ driver = [op |-> "none"]
    /\ bitfile = [op |-> "none"]
    /\ fifo = [op |-> "none"]
    /\ irq = [op |-> "none"]
    /\ region = [op |-> "none"]
    /\ session = [op |-> "none"]
    /\ wide = [op |-> "parsed", ty |-> ParseTypeWide(cluster_xml),
               data |-> IntZero, value |-> << >>,
               ret |-> Returned(IntZero, << >>)]

WideUnchanged ==
    /\ UNCHANGED << codec, reg, threads >>
    /\ UNCHANGED << driver, bitfile, fifo, irq, region, session >>

\* testRegister.unpack_data(data)
WideUnpack(data) ==
    /\ wide.op = "parsed"
    /\ wide' = [wide EXCEPT !.op = "unpacked", !.data = data,
                            !.value = UnpackDataWide(wide.ty, data)]
    /\ WideUnchanged

\* testRegister.pack_data(value, 0)
WidePack(value) ==
    /\ wide.op = "parsed"
    /\ wide' = [wide EXCEPT !.op = "packed", !.value = value,
                            !.ret = PackDataWide(wide.ty, value, IntZero)]
    /\ WideUnchanged

\* pack_data of what unpack_data returned
WidePackUnpacked ==
    /\ wide.op = "unpacked"
    /\ wide' = [wide EXCEPT !.op = "repacked",
                            !.ret = PackDataWide(wide.ty, wide.value, IntZero)]
    /\ WideUnchanged

WideNext ==
    \/ \E data \in WideBlobs(wide.ty) : WideUnpack(data)
    \/ \E value \in WideStructures(wide.ty) : WidePack(value)
    \/ WidePackUnpacked

WideSpec == WideInit /\ [][WideNext]_vars

\* every field of the structure v of type t is set to 1: an integer is 1, a
\* Boolean True, an FXP with overflow status (False, 1); an FXP without is
\* the number 1 when bare, else (False, 1) as well
RECURSIVE SetTo1(_, _, _)
SetTo1(t, v, bare) ==
    CASE t.kind = "Numeric" -> v = IntNat(1)
      [] t.kind = "Bool"    -> v = TRUE
      [] t.kind = "FXP"     -> IF bare /\ ~t.overflow_enabled
                               THEN v = Num(DecFromInt(1))
                               ELSE v = Pair(FALSE, DecFromInt(1))
      [] t.kind = "Cluster" -> /\ Len(v) = Len(t.children)
                               /\ \A i \in 1..Len(v) :
                                     /\ v[i][1] = t.children[i].name
                                     /\ SetTo1(t.children[i], v[i][2], bare)
      [] t.kind = "Array"   -> /\ Len(v) = t.size
                               /\ \A i \in 1..Len(v) : SetTo1(t.subtype, v[i], bare)

\* C21: on the register of the cluster test, unpack_data of actual_data
\* gives the structure with 1 in every integer field, True in every
\* Boolean field, (False, 1) in every FXP field that carries the overflow
\* status and the bare number 1 in the elements of the FXP array, which
\* carry none; pack_data of that structure, from 0, returns actual_data
\* without a warning.
C21_NestedScenario ==
    /\ wide.op \in {"unpacked", "repacked"} /\ wide.data = actual_data
          => /\ wide.value = expected_data
             /\ SetTo1(wide.ty, wide.value, TRUE)
    /\ wide.op = "repacked" /\ wide.data = actual_data
          => wide.ret = Returned(actual_data, << >>)
    /\ wide.op = "packed" /\ SetTo1(wide.ty, wide.value, TRUE)
          => wide.ret = Returned(actual_data, << >>)

C21_Witness ==
    /\ wide.op = "repacked"
    /\ wide.data = actual_data
    /\ SetTo1(wide.ty, wide.value, TRUE)
    /\ wide.ret.blob = actual_data

\* C21 as stated: unpack_data of actual_data gives (False, 1) in every FXP
\* field, the elements of the FXP array included, and pack_data of the
\* structure with (False, 1) in every FXP field returns actual_data.
C21_EveryFxpPaired ==
    /\ wide.op \in {"unpacked", "repacked"} /\ wide.data = actual_data
          => SetTo1(wide.ty, wide.value, FALSE)
    /\ wide.op = "packed" /\ SetTo1(wide.ty, wide.value, FALSE)
          => wide.ret = Returned(actual_data, << >>)

(***************************************************************************)
(* An FXP FIFO.  _FxpFIFO is a FIFO of DataType.U64: write packs each      *)
(* element into a slot of a ctypes c_uint64 array, which keeps the low 64  *)
(* bits of the integer assigned to it, and the accessor that read returns  *)
(* unpacks a slot on each access.  fifo holds the type, the elements       *)
(* handed to write or stored through the accessor (data), what pack_data   *)
(* returned for each (packed), the slots (buffer) and what the accessor    *)
(* gave for each slot (values).  The buffer read is the buffer written.    *)
(***************************************************************************)
SlotBits == 64

MaxFifoElements == 2

MaxFifoSets == 1

\* the geometries: words of 1, 2, 63 and 64 bits with delta 1, and the
\* 4-bit word with delta 1/4 of the package's tests
FxpFifoSchemas ==
    {FxpMember("f", sg, wl, wl, ov) :
        sg \in {"true", "false"}, wl \in {1, 2, 63, 64}, ov \in {"true", "false"}}
    \cup {FxpMember("f", sg, 4, 2, "true") : sg \in {"true", "false"}}

\* the words of a type: zero, one, the top bit of the word and the word of
\* ones, each without and with the bit above the word
FxpFifoWords(t) ==
    {IntLow(IntAdd(w, o), t.size_in_bits) :
        w \in {IntZero, IntNat(1), IntPow2(t.word_length - 1),
               IntOf(FALSE, [i \in 1..t.word_length |-> 1])},
        o \in {IntZero, IntPow2(t.word_length)}}

\* the elements a type represents exactly
FxpFifoItems(t) ==
    {UnpackFXPWide(t, w) : w \in FxpFifoWords(t)}

\* buf[i] = value on an array of c_uint64
StoreSlot(value) ==
    IntLow(value, SlotBits)

NewFxpFifo(t) ==
    [op |-> "new", type |-> t, data |-> << >>, packed |-> << >>,
     buffer |-> << >>, values |-> << >>, index |-> 0, sets |-> 0]

FxpFifoInit ==
    /\ schema = None
    /\ ty = [kind |-> "None"]
    /\ op = "init"
    /\ NoCall
    /\ reg = NoRegister
    /\ NoThreads
    /\ driver = [op |-> "none"]
    /\ bitfile = [op |-> "none"]
    /\ irq = [op |-> "none"]
    /\ region = [op |-> "none"]
    /\ session = [op |-> "none"]
    /\ wide = [op |-> "none"]
    /\ \E x \in FxpFifoSchemas : fifo = NewFxpFifo(ParseTypeWide(x))

FxpFifoUnchanged ==
    /\ UNCHANGED << codec, reg, threads >>
    /\ UNCHANGED << driver, bitfile, irq, region, session, wide >>

\* _FxpFIFO.write(data) up to the call of the driver
FxpFifoWrite(data) ==
    /\ fifo.op = "new"
    /\ fifo' = [fifo EXCEPT
                  !.op = "written",
                  !.data = data,
                  !.packed = [i \in 1..Len(data) |->
                                PackDataWide(fifo.type, data[i], IntZero).blob],
                  !.buffer = [i \in 1..Len(data) |->
                                StoreSlot(PackDataWide(fifo.type, data[i],
                                                       IntZero).blob)]]
    /\ FxpFifoUnchanged

\* _FxpFIFO.read(number_of_elements) from the filled buffer on, and the
\* iteration of the accessor it returns
FxpFifoRead ==
    /\ fifo.op = "written"
    /\ fifo' = [fifo EXCEPT
                  !.op = "read",
                  !.values = [i \in 1..Len(fifo.buffer) |->
                                UnpackDataWide(fifo.type, fifo.buffer[i])]]
    /\ FxpFifoUnchanged

\* accessor[index] = value
FxpFifoSetItem(index, value) ==
    /\ fifo.op = "read"
    /\ fifo.sets < MaxFifoSets
    /\ fifo' = [fifo EXCEPT
                  !.op = "set",
                  !.index = index,
                  !.sets = fifo.sets + 1,
                  !.data[index + 1] = value,
                  !.packed[index + 1] = PackDataWide(fifo.type, value, IntZero).blob,
                  !.buffer[index + 1] =
                      StoreSlot(PackDataWide(fifo.type, value, IntZero).blob)]
    /\ FxpFifoUnchanged

\* accessor[index]
FxpFifoGetItem ==
    /\ fifo.op = "set"
    /\ fifo' = [fifo EXCEPT
                  !.op = "read",
                  !.values[fifo.index + 1] =
                      UnpackDataWide(fifo.type, fifo.buffer[fifo.index + 1])]
    /\ FxpFifoUnchanged

FxpFifoNext ==
    \/ /\ fifo.op = "new"
       /\ \E n \in 1..MaxFifoElements :
             \E data \in [1..n -> FxpFifoItems(fifo.type)] : FxpFifoWrite(data)
    \/ FxpFifoRead
    \/ /\ fifo.op = "read"
       /\ \E index \in 0..(Len(fifo.data) - 1) :
             \E value \in FxpFifoItems(fifo.type) : FxpFifoSetItem(index, value)
    \/ FxpFifoGetItem

FxpFifoSpec == FxpFifoInit /\ [][FxpFifoNext]_vars

\* C30: for every FXP type (word of 1..64 bits, with or without overflow
\* status) each slot of the FIFO buffer holds the full value pack_data
\* returned for its element, and the slot unpacks to the element that was
\* written, (overflow, value) included, also for a word of 64 bits with
\* overflow status, whose packed value takes 65 bits.
C30_FxpFifoTransfer ==
    /\ fifo.op \in {"written", "read", "set"}
          => \A i \in 1..Len(fifo.data) : fifo.buffer[i] = fifo.packed[i]
    /\ fifo.op = "read"
          => \A i \in 1..Len(fifo.data) : fifo.values[i] = fifo.data[i]

====
